---- MODULE Spec2Model ----
(***************************************************************************)
(* nagobot agent core: the message bus, the agent loop (ReAct turn,       *)
(* mid-turn compression, memory consolidation, slash commands) and the    *)
(* outbound recovery path, as state machines.                             *)
(*                                                                         *)
(* Go slices are 0-based and TLA+ sequences 1-based: At(s, i) reads the   *)
(* element the Go code calls s[i], and every index named like the code    *)
(* (splitIdx, i) is the Go index.                                          *)
(***************************************************************************)
EXTENDS Integers, Sequences, FiniteSets, TLC

VARIABLES
    \* ---- the agent loop (Loop.Run, Loop.processMessage) ----
    inbound,    \* bus.Inbound: the buffered channel, oldest first
    outbound,   \* bus.Outbound: published and not yet dispatched
    ctxDone,    \* the context handed to Run is cancelled
    pc,         \* where Run is
    cur,        \* the inbound message Run is handling
    resp,       \* the outbound message Run is about to publish
    messages,   \* processMessage's message list
    iter,       \* the ReAct loop's i
    attempt,    \* chatWithRetry's attempt
    calls,      \* resp.ToolCalls of the response being handled
    nDone,      \* how many of calls have been executed
    session,    \* sess.Messages of the one session
    memory,     \* the content of MEMORY.md
    history,    \* the entries of HISTORY.md, oldest first
    chatCalls,  \* history variable: Provider.Chat invocations in this turn
    reqs,       \* history variable: chatWithRetry invocations in this turn
    nTaken,     \* history variable: inbound messages Run has taken
    chk,        \* history variable: what the last pre-call check saw
    toolsUsed,  \* processMessage's toolsUsed: the names of the tools executed
    mediaFiles, \* processMessage's mediaFiles: how many files it has collected
    rounds,     \* history variable: tool rounds completed in this turn
    rq,         \* history variable: the current call of chatWithRetry
    memoryWindow, \* l.memoryWindow
    cons,       \* history variable: this turn's consolidation
    consFailed, \* history variable: some consolidation has failed
    \* ---- compressMessages on its own ----
    cM,         \* the message list handed in
    cOut,       \* the list returned
    cPc,        \* "in" before the call, "out" after
    cOk,        \* whether the summarization call succeeded
    \* ---- producers and consumer of bus.Inbound ----
    prod,       \* per producer: the message its PublishInbound is sending
    completed,  \* history variable: the messages whose publication completed
    received,   \* history variable: the messages the consumer received
    \* ---- MessageBus.DispatchOutbound ----
    dPc,        \* where DispatchOutbound is
    dMsg,       \* the outbound message being dispatched
    hIdx,       \* the index of the handler in the range loop
    stage,      \* the strategy recoverSend is at
    log,        \* history variable: the calls made to this handler for dMsg
    subscribers,\* b.subscribers: per channel, the handlers in subscription order
    handlers,   \* the handlers DispatchOutbound read for dMsg
    primary,    \* history variable: per message taken, who was subscribed,
                \* who got the original, and who failed it
    \* ---- SubagentManager and the spawn tool ----
    tasks,      \* m.tasks: the task ids with an entry
    sub,        \* the goroutines started by Spawn, in order of start
    toolCtx,    \* SpawnTool's defaultChannel and defaultChatID
    crashed,    \* the process was ended by a panic
    spawnCalls, \* history variable: how many times Spawn has been called
    \* ---- cron.Service ----
    now,        \* nowMs(): the clock
    obj,        \* the Job objects AddJob has made, by id (the pointers)
    store,      \* s.store.Jobs: the ids of the jobs in the store, in order
    tPc,        \* where the ticker's goroutine is
    due,        \* onTimer's due: the ids it still has to execute
    firing,     \* executeJob's job, startMs and the callback's error
    \* ---- nextCronRun ----
    xIn,        \* the call's arguments: the parsed fields, the zone, the time
    xT,         \* the search's t, in minutes
    xEnd,       \* the search's end
    xPc,        \* where nextCronRun is
    xRes,       \* what it returned, in minutes (0: none)
    \* ---- the Loop's two entry points: Run and ProcessDirect ----
    ePc,        \* per entry point: where its processMessage is
    eMsg,       \* per entry point: the chat of the message it handles
    eDirty,     \* history variable: another turn bound the tools since
    eCalls,     \* history variable: the tool calls made, with what they read
    \* ---- session.Manager: Save and load ----
    pSess,      \* the Session in memory: Messages and CreatedAt
    pFile,      \* the session's .jsonl file: its lines, or none
    pLoaded,    \* the Session a manager with an empty cache loaded
    pPc,        \* "new", "saved" or "loaded"
    \* ---- config: SaveTo and LoadFrom ----
    gEnv,       \* a string map of the Config in memory (an MCP server's Env)
    gFile,      \* the same map in the file SaveTo wrote
    gLoaded,    \* the same map in the Config LoadFrom returned
    gPc,        \* "new", "saved" or "loaded"
    \* ---- the file tools' resolvePath ----
    rIn,        \* the call: path and allowedDir
    rOut,       \* what it returned: the resolved path, or the error
    rPc,        \* "call" or "done"

    \* ---- parseCronField ----
    fIn,        \* the call: the field's comma-separated parts, min and max
    fOut,       \* what it returned: nil, or the set
    fPc,        \* "call" or "done"

    \* ---- the interactive chat: chatModel.Update ----
    uPc,        \* "run" or "quit"
    uWaiting,   \* m.waiting
    uCancel,    \* m.cancelFunc is not nil
    uHistory,   \* m.history, each entry with whether its turn was cancelled
    uTurns,     \* the sendMessageWithCtx commands not yet answered

    \* ---- session.Manager: the cache and the sessions directory ----
    kCache,     \* m.cache: pairs of a session key and its Messages
    kFiles      \* the .jsonl files: pairs of a path and the Messages saved there

queueVars == <<inbound, outbound>>
runVars == <<ctxDone, pc, cur, resp, nTaken>>
turnVars ==
    <<messages, iter, attempt, calls, nDone, chatCalls, reqs, chk, toolsUsed,
      mediaFiles, rounds, rq>>
memVars == <<session, memory, history, cons, consFailed>>
loopVars == <<queueVars, runVars, turnVars, memVars>>

compVars == <<cM, cOut, cPc, cOk>>
busVars == <<prod, completed, received>>
dispVars == <<dPc, dMsg, hIdx, stage, log, subscribers, handlers, primary>>
cfgVars == <<memoryWindow>>
subVars == <<tasks, sub, toolCtx, crashed, spawnCalls>>
cronVars == <<now, obj, store, tPc, due, firing>>
exprVars == <<xIn, xT, xEnd, xPc, xRes>>
entryVars == <<ePc, eMsg, eDirty, eCalls>>
persistVars == <<pSess, pFile, pLoaded, pPc>>
configVars == <<gEnv, gFile, gLoaded, gPc>>
pathVars == <<rIn, rOut, rPc>>
fieldVars == <<fIn, fOut, fPc>>
chatVars == <<uPc, uWaiting, uCancel, uHistory, uTurns>>
keyVars == <<kCache, kFiles>>
extVars == <<exprVars, entryVars, persistVars, configVars, pathVars, fieldVars, chatVars, keyVars>>
restVars == <<cfgVars, subVars, cronVars, extVars>>
sideVars == <<compVars, busVars, dispVars, restVars>>

vars == <<loopVars, sideVars>>

----------------------------------------------------------------------------
(* Bounds of the model *)

\* longest message list handed to compressMessages on its own
MaxLen == 8

\* LoopConfig.MaxIterations (default 20)
MaxIterations == 2

\* LoopConfig.MemoryWindow (default 50)
MemoryWindow == 4

\* LoopConfig.ContextLimit (default 80000), in estimated tokens
ContextLimit == 197

\* inbound messages published in one run of the model
MaxTurns == 3

\* calls of PublishInbound the producers make in one run of the bus model
MaxPublish == 3

\* handlers subscribed to the channel of the dispatched message
NumHandlers == 2

----------------------------------------------------------------------------
(* Messages of the list handed to the Provider ([]map[string]any) *)

Roles == {"system", "user", "assistant", "tool"}

\* One chat message. calls: the ids of its tool_calls (assistant), callId: its
\* tool_call_id (tool, else 0), bytes: the length of its JSON encoding,
\* tag: which code path made it, toolsUsed: the audit list of a session entry.
Msg(role, tag, ids, callId, bytes) ==
    [role |-> role, tag |-> tag, calls |-> ids, callId |-> callId, bytes |-> bytes,
     toolsUsed |-> <<>>]

At(s, i) == s[i + 1]

\* s[from:] of Go
SliceFrom(s, from) == SubSeq(s, from + 1, Len(s))

RECURSIVE SumBytes(_)
SumBytes(s) == IF s = <<>> THEN 0 ELSE Head(s).bytes + SumBytes(Tail(s))

\* len(json.Marshal(messages)): brackets, the elements, the commas between them
JSONLen(msgs) ==
    2 + SumBytes(msgs) + (IF Len(msgs) > 0 THEN Len(msgs) - 1 ELSE 0)

estimateTokens(msgs) == JSONLen(msgs) \div 4

\* the two synthetic msgs compressMessages splices in
SummaryMsg(bytes) == Msg("user", "summary", <<>>, 0, bytes)
AckBytes == 122
AckMsg == Msg("assistant", "ack", <<>>, 0, AckBytes)

\* the backwards walk of compressMessages: for i := len-4; i > 1; i--
RECURSIVE WalkSplit(_, _)
WalkSplit(msgs, i) ==
    IF i > 1
    THEN IF At(msgs, i).role = "user" THEN i ELSE WalkSplit(msgs, i - 1)
    ELSE -1

\* faulty variant: the walk starts one message later, leaving a tail of 3
findSplitShortTail(msgs) == WalkSplit(msgs, Len(msgs) - 3)

findSplit(msgs) == WalkSplit(msgs, Len(msgs) - 4)

\* whether compressMessages reaches its Provider.Chat call
compressCallsChat(msgs) ==
    Len(msgs) >= 6 /\ findSplit(msgs) > 1

\* compressMessages; ok: the summarization call returned no error,
\* sumBytes: the size of the summary message built from its reply
compressMessages(msgs, ok, sumBytes) ==
    IF Len(msgs) < 6 THEN msgs
    ELSE LET splitIdx == findSplit(msgs) IN
         IF splitIdx <= 1 THEN msgs
         ELSE IF ~ok THEN msgs
         ELSE <<At(msgs, 0), SummaryMsg(sumBytes), AckMsg>>
                  \o SliceFrom(msgs, splitIdx)

----------------------------------------------------------------------------
(* The inputs of the agent loop: what channels, the Provider and the tools *)
(* may hand it                                                             *)

\* the size of the summary message: 60 bytes of framing plus the summary
SummaryBytes == {72, 900}

\* the size of a tool message: a short result, a long one; the message tool
\* answers with a short line
ToolResultBytes == {80, 800}
ResultBytesOf(name) == IF name = "message" THEN {80} ELSE ToolResultBytes

\* what a tool's own Execute returns: an error or not, the size of the tool
\* message its content makes, and len(Media)
Ran(err, bytes, media) == [err |-> err, bytes |-> bytes, media |-> media]

\* the runs in which the tool returns no error and no media
OkRuns == {Ran(FALSE, bytes, 0) : bytes \in ToolResultBytes}

\* every run: also with a media file, and failing, with or without a result
\* beside the error (an error makes a short line)
AllRuns ==
    OkRuns \cup {Ran(FALSE, 80, 1), Ran(TRUE, 80, 0), Ran(TRUE, 80, 1)}

\* a ToolResult: kind tells the text apart (a result, "Error executing ...",
\* "Error: Tool ... not found")
ToolResult(kind, bytes, media) == [kind |-> kind, bytes |-> bytes, media |-> media]

\* the tools registered with the main agent's registry, as far as the model
\* tells them apart
MainTools == {"exec", "message", "spawn"}

\* faulty variant: the tool's error leaves Execute with the tool's result
ExecuteUnguarded(registry, name, ran) ==
    IF name \notin registry THEN ToolResult("notfound", 80, 0)
    ELSE ToolResult("result", ran.bytes, ran.media)

\* Registry.Execute
Execute(registry, name, ran) ==
    IF name \notin registry THEN ToolResult("notfound", 80, 0)
    ELSE IF ran.err THEN ToolResult("toolerror", 80, 0)
    ELSE ToolResult("result", ran.bytes, ran.media)

\* an inbound message: what processMessage routes on, the size of the user
\* message built from its content, and which call of PublishInbound it is
\* the argument of
InMsg(kind, bytes, seq) == [kind |-> kind, bytes |-> bytes, seq |-> seq]
NoMsg == InMsg("none", 0, 0)
SlashKinds == {"/new", "/compact", "/context", "/help"}
InboundMsgs(seq) ==
    {InMsg("chat", 40, seq), InMsg("system", 200, seq)}
        \cup {InMsg(s, 0, seq) : s \in SlashKinds}

\* resp.ToolCalls: each call's id and tool name; ids may repeat
Call(id, name) == [id |-> id, name |-> name]
ToolCallLists ==
    { <<Call(1, "exec")>>,
      <<Call(1, "exec"), Call(2, "message")>>,
      <<Call(2, "message"), Call(2, "exec")>> }

\* the reply of the consolidation call: the call failed, its text is no JSON
\* object of strings, or it parsed to these two values ("" also for a
\* missing key)
ConsOut(kind, entry, update) == [kind |-> kind, entry |-> entry, update |-> update]
ConsOutcomes ==
    {ConsOut("err", "", ""), ConsOut("badjson", "", "")}
        \cup {ConsOut("ok", "h", "m1"), ConsOut("ok", "", "")}

\* a stored transcript of n messages, user and assistant alternating
RECURSIVE Transcript(_)
Transcript(n) ==
    IF n = 0 THEN <<>>
    ELSE Append(Transcript(n - 1),
                Msg(IF n % 2 = 1 THEN "user" ELSE "assistant", "stored", <<>>, 0, 40))

----------------------------------------------------------------------------
(* bus.MessageBus: the two buffered channels *)

InboundCap == 64
OutboundCap == 64

\* ch <- msg on a buffered channel proceeds only while the buffer has room
CanSend(ch, cap) == Len(ch) < cap

\* an outbound message: what it is, who published it, the inbound message it
\* answers, len(Content) and len(Media); the agent loop's messages are left
\* without payload, the dispatcher's carry one
OutMsg(kind, by, re) ==
    [kind |-> kind, by |-> by, re |-> re, content |-> 0, media |-> 0]
NoOut == OutMsg("none", "none", NoMsg)

----------------------------------------------------------------------------
(* session.Session, ContextBuilder, MemoryStore *)

\* Session.AddMessage
AddMessage(sess, role, bytes) == Append(sess, Msg(role, "stored", <<>>, 0, bytes))

\* Session.AddMessage with the audit list, as processMessage calls it
AddMessageTools(sess, role, bytes, tools) ==
    Append(sess, [Msg(role, "stored", <<>>, 0, bytes) EXCEPT !.toolsUsed = tools])

\* Session.GetHistory: the last maxMessages, as role and content only
GetHistory(sess, maxMessages) ==
    LET msgs == IF Len(sess) > maxMessages
                THEN SliceFrom(sess, Len(sess) - maxMessages) ELSE sess
    IN [j \in 1..Len(msgs) |-> Msg(msgs[j].role, "history", <<>>, 0, msgs[j].bytes)]

\* ContextBuilder.BuildMessages: [system] ++ history ++ [user = currentMessage]
BuildMessages(hist, currentBytes) ==
    <<Msg("system", "system", <<>>, 0, 400)>> \o hist
        \o <<Msg("user", "current", <<>>, 0, currentBytes)>>

\* ContextBuilder.AddAssistantMessage, with the ids of its tool_calls
AddAssistantMessage(msgs, toolCalls) ==
    Append(msgs, Msg("assistant", "toolcalls",
                     [j \in 1..Len(toolCalls) |-> toolCalls[j].id], 0, 100))

\* ContextBuilder.AddToolResult
AddToolResult(msgs, toolCallID, result) ==
    Append(msgs, Msg("tool", result.kind, <<>>, toolCallID, result.bytes))

\* the synthetic user message appended after the tool results when i > 0
NudgeBytes == 272
NudgeMsg == Msg("user", "nudge", <<>>, 0, NudgeBytes)

\* MemoryStore.AppendHistory, MemoryStore.WriteLongTerm
AppendHistory(hist, entry) == Append(hist, entry)
WriteLongTerm(mem, update) == update

\* faulty variant: the half of the window, not clamped
keepCountOfHalf(window) == window \div 2

\* keepCount of consolidateMemory: memoryWindow/2 clamped to 2..10
keepCountOf(window) ==
    LET half == window \div 2 IN
    IF half < 2 THEN 2 ELSE IF half > 10 THEN 10 ELSE half

\* faulty variant: the test lets the transcript get one turn longer
needsConsolidationLate(sess) == Len(sess) > memoryWindow + 2

\* processMessage's test for consolidating before the turn
needsConsolidation(sess) == Len(sess) > memoryWindow

\* the messages consolidateMemory keeps when it does not archive all
keptTail(sess, keepCount) == SliceFrom(sess, Len(sess) - keepCount)

\* consolidateMemory: the state it leaves, and whether it called the Provider
ConsResult(sess, mem, hist, called) ==
    [session |-> sess, memory |-> mem, history |-> hist, called |-> called]

consolidateMemory(sess, mem, hist, archiveAll, out) ==
    LET keepCount == IF archiveAll THEN 0 ELSE keepCountOf(memoryWindow)
        untouched == ConsResult(sess, mem, hist, FALSE)
    IN
    IF Len(sess) = 0 THEN untouched
    ELSE IF ~archiveAll /\ Len(sess) <= keepCount THEN untouched
    ELSE IF out.kind # "ok" THEN ConsResult(sess, mem, hist, TRUE)
    ELSE ConsResult(
             IF archiveAll THEN <<>> ELSE keptTail(sess, keepCount),
             IF out.update # "" /\ out.update # mem
                 THEN WriteLongTerm(mem, out.update) ELSE mem,
             IF out.entry # "" THEN AppendHistory(hist, out.entry) ELSE hist,
             TRUE)

\* the per-turn record of a consolidation: what triggered it, the reply, and
\* the state before it
ConsNone ==
    [trigger |-> "none", called |-> FALSE, out |-> ConsOut("none", "", ""),
     preSession |-> <<>>, preMemory |-> "", preHistory |-> <<>>]

ConsRecord(trigger, r, out) ==
    [trigger |-> trigger, called |-> r.called,
     out |-> IF r.called THEN out ELSE ConsOut("none", "", ""),
     preSession |-> session, preMemory |-> memory, preHistory |-> history]

ConsFailure(rec) == rec.called /\ rec.out.kind \in {"err", "badjson"}
----------------------------------------------------------------------------
(* Loop.Run and Loop.processMessage *)

maxRetries == 2

\* faulty variant: one iteration too many
loopContinuesInclusive(i) == i <= MaxIterations

\* the ReAct loop's condition: i < l.maxIterations
loopContinues(i) == i < MaxIterations

\* faulty variant: compression fires at the limit already
needsCompressionAtLimit(msgs) == estimateTokens(msgs) >= ContextLimit

\* the pre-call test of the ReAct loop
needsCompression(msgs) == estimateTokens(msgs) > ContextLimit

\* faulty variant: the retry does not advance the loop counter
iterAfterRetryKept(i) == i

\* what i is after the error branch's "continue"
iterAfterRetry(i) == i + 1

\* no pre-call check has been made
ChkNone == [made |-> FALSE, tokens |-> 0, msgs |-> <<>>, calls |-> 0]

\* a call of chatWithRetry: the provider.Chat calls it has made, which of them
\* failed last (0: none), and how it returned ("running" until it does)
RqNone == [calls |-> 0, lastErr |-> 0, ret |-> "running"]

TurnIdle ==
    /\ messages = <<>>
    /\ iter = 0
    /\ attempt = 0
    /\ calls = <<>>
    /\ nDone = 0
    /\ chatCalls = 0
    /\ reqs = 0
    /\ chk = ChkNone
    /\ toolsUsed = <<>>
    /\ mediaFiles = 0
    /\ rounds = 0
    /\ rq = RqNone

\* the agent loop before Run has taken anything
LoopQuiet ==
    /\ memoryWindow = MemoryWindow
    /\ ctxDone = FALSE
    /\ pc = "idle"
    /\ cur = NoMsg
    /\ resp = NoOut
    /\ nTaken = 0
    /\ TurnIdle
    /\ session = <<>>
    /\ memory = ""
    /\ history = <<>>
    /\ cons = ConsNone
    /\ consFailed = FALSE

LoopIdle == inbound = <<>> /\ outbound = <<>> /\ LoopQuiet

CompressIdle == cM = <<>> /\ cOut = <<>> /\ cPc = "off" /\ cOk = TRUE

\* the producers of the bus model
Producers == {"p1", "p2"}

BusIdle ==
    /\ prod = [p \in Producers |-> NoMsg]
    /\ completed = <<>>
    /\ received = <<>>

\* the channels outbound messages are addressed to
Channels == {"a", "b"}

DispatchIdle ==
    /\ dPc = "off"
    /\ dMsg = NoOut
    /\ hIdx = 0
    /\ stage = 0
    /\ log = <<>>
    /\ subscribers = [c \in Channels |-> <<>>]
    /\ handlers = <<>>
    /\ primary = <<>>

\* a channel name or chat id is the sequence of its characters
NoContext == [channel |-> <<>>, chatID |-> <<>>]

SubIdle ==
    /\ tasks = {}
    /\ sub = <<>>
    /\ toolCtx = NoContext
    /\ crashed = FALSE
    /\ spawnCalls = 0

NoFiring == [id |-> 0, startMs |-> 0, err |-> FALSE]

CronIdle ==
    /\ now = 1
    /\ obj = <<>>
    /\ store = <<>>
    /\ tPc = "idle"
    /\ due = <<>>
    /\ firing = NoFiring

NoExpr == [minutes |-> {}, hours |-> {}, doms |-> {}, months |-> {}, dows |-> {}]

ExprIdle ==
    /\ xIn = [expr |-> NoExpr, zone |-> 0, t0 |-> 0]
    /\ xT = 0
    /\ xEnd = 0
    /\ xPc = "off"
    /\ xRes = 0

EntryPoints == {"run", "direct"}

EntryIdle ==
    /\ ePc = [e \in EntryPoints |-> "idle"]
    /\ eMsg = [e \in EntryPoints |-> NoContext]
    /\ eDirty = [e \in EntryPoints |-> FALSE]
    /\ eCalls = <<>>

NoSession == [messages |-> <<>>, createdAt |-> [sec |-> 0, nsec |-> 0]]

PersistIdle ==
    /\ pSess = NoSession
    /\ pFile = <<>>
    /\ pLoaded = NoSession
    /\ pPc = "off"

ConfigIdle ==
    /\ gEnv = <<>>
    /\ gFile = <<>>
    /\ gLoaded = <<>>
    /\ gPc = "off"

PathIdle ==
    /\ rIn = [path |-> <<>>, allowedDir |-> <<>>]
    /\ rOut = [ok |-> FALSE, resolved |-> <<>>]
    /\ rPc = "off"

FieldIdle ==
    /\ fIn = [field |-> <<>>, min |-> 0, max |-> 0]
    /\ fOut = [nil |-> TRUE, set |-> {}]
    /\ fPc = "off"

ChatIdle ==
    /\ uPc = "off"
    /\ uWaiting = FALSE
    /\ uCancel = FALSE
    /\ uHistory = <<>>
    /\ uTurns = <<>>

KeyIdle ==
    /\ kCache = {}
    /\ kFiles = {}

ExtIdle == ExprIdle /\ EntryIdle /\ PersistIdle /\ ConfigIdle /\ PathIdle /\ FieldIdle /\ ChatIdle /\ KeyIdle

BackgroundIdle == SubIdle /\ CronIdle /\ ExtIdle

SideIdle == CompressIdle /\ BusIdle /\ DispatchIdle

\* the sessions of Init: new, or the transcript earlier turns saved, a user
\* and an assistant entry each
StoredSessions ==
    LET full == 2 * (MemoryWindow \div 2) IN
    {Transcript(n) : n \in {0, full, full + 2}}

\* One turn of Run in full: one message waits on the inbound channel.
Init ==
    /\ inbound \in {<<msg>> : msg \in InboundMsgs(1)}
    /\ outbound = <<>>
    /\ ctxDone = FALSE
    /\ pc = "idle"
    /\ cur = NoMsg
    /\ resp = NoOut
    /\ nTaken = 0
    /\ TurnIdle
    /\ session \in StoredSessions
    /\ memory = ""
    /\ history = <<>>
    /\ cons = ConsNone
    /\ consFailed = FALSE
    /\ memoryWindow = MemoryWindow
    /\ SideIdle
    /\ BackgroundIdle

\* The owner of the context cancels it. The loop reads the context in Run's
\* select and in chatWithRetry's wait only, so a cancellation at any other
\* moment is first seen there, and is taken there.
Cancel ==
    /\ ~ctxDone
    /\ pc \in {"idle", "backoff"}
    /\ ctxDone' = TRUE
    /\ UNCHANGED <<queueVars, pc, cur, resp, nTaken, turnVars, memVars, sideVars>>

\* Run's select, case msg := <-l.bus.Inbound
RunTake ==
    /\ pc = "idle"
    /\ inbound # <<>>
    /\ cur' = Head(inbound)
    /\ inbound' = Tail(inbound)
    /\ pc' = "dispatch"
    /\ nTaken' = nTaken + 1
    /\ resp' = NoOut
    /\ cons' = ConsNone
    /\ messages' = <<>> /\ iter' = 0 /\ attempt' = 0 /\ calls' = <<>> /\ nDone' = 0
    /\ chatCalls' = 0 /\ reqs' = 0 /\ chk' = ChkNone
    /\ toolsUsed' = <<>> /\ mediaFiles' = 0 /\ rounds' = 0 /\ rq' = RqNone
    /\ UNCHANGED <<outbound, ctxDone, session, memory, history, consFailed, sideVars>>

\* Run's select, case <-ctx.Done()
RunStop ==
    /\ pc = "idle"
    /\ ctxDone
    /\ pc' = "stopped"
    /\ UNCHANGED <<queueVars, ctxDone, cur, resp, nTaken, turnVars, memVars, sideVars>>

\* faulty variant: nothing is published for a failed turn
apologyDropped(msg) == NoOut

\* what Run publishes when processMessage returns an error
apologyFor(msg) == OutMsg("apology", "run", msg)

\* processMessage returned an error: Run is left to publish the apology
TurnError ==
    /\ resp' = apologyFor(cur)
    /\ pc' = "publish"

\* faulty variant: the assistant entry is saved without its audit list
savedTurnNoAudit(sess, userBytes, tools) ==
    AddMessage(AddMessage(sess, "user", userBytes), "assistant", 40)

\* the session after processMessage has saved the turn: the user entry and
\* the assistant entry
savedTurn(sess, userBytes, tools) ==
    AddMessageTools(AddMessage(sess, "user", userBytes), "assistant", 40, tools)

\* len of the fallback texts of processMessage and of ProcessSystemMessage,
\* and of the prefix of the latter's error text
FallbackLen == 55
SystemFallbackLen == 26
SystemErrorLen == 34

\* len(resp.Content) of the tool-free responses: empty, or some text
FinalTexts == {0, 12}

\* faulty variant: the text as the model gave it
finalContentAsGiven(text, fallback) == text

\* if finalContent == "" { finalContent = <fallback> }
finalContentOf(text, fallback) == IF text = 0 THEN fallback ELSE text

\* processMessage, from the fallback to its return; text is len(finalContent)
\* on leaving the loop
TurnReply(text) ==
    /\ session' = savedTurn(session, cur.bytes, toolsUsed)
    /\ resp' = [OutMsg("reply", "run", cur) EXCEPT
                   !.media = mediaFiles,
                   !.content = finalContentOf(text, FallbackLen)]
    /\ pc' = "publish"

\* ProcessSystemMessage's return, and processMessage's with it
SystemReply(text) ==
    /\ resp' = [OutMsg("sysreply", "run", cur) EXCEPT
                   !.content = finalContentOf(text, SystemFallbackLen)]
    /\ pc' = "publish"

\* handleNew
handleNew(out) ==
    /\ pc = "dispatch" /\ cur.kind = "/new"
    /\ LET r == consolidateMemory(session, memory, history, TRUE, out) IN
       /\ session' = <<>>
       /\ memory' = r.memory
       /\ history' = r.history
       /\ chatCalls' = chatCalls + (IF r.called THEN 1 ELSE 0)
       /\ cons' = ConsRecord("new", r, out)
       /\ consFailed' = (consFailed \/ (r.called /\ out.kind # "ok"))
    /\ resp' = OutMsg("slash", "run", cur)
    /\ pc' = "publish"
    /\ UNCHANGED <<queueVars, ctxDone, cur, nTaken, messages, iter, attempt, calls,
                   nDone, reqs, chk, toolsUsed,
                   mediaFiles, rounds, rq, sideVars>>

\* handleCompact
handleCompact(ok, sumBytes) ==
    /\ pc = "dispatch" /\ cur.kind = "/compact"
    /\ LET hist == GetHistory(session, Len(session))
           msgs == <<Msg("system", "system", <<>>, 0, 400)>> \o hist
           compressed == compressMessages(msgs, ok, sumBytes)
       IN
       IF Len(hist) < 5
       THEN UNCHANGED <<session, chatCalls>>
       ELSE /\ chatCalls' = chatCalls + (IF compressCallsChat(msgs) THEN 1 ELSE 0)
            /\ IF estimateTokens(compressed) >= estimateTokens(msgs)
               THEN UNCHANGED session
               ELSE session' = [j \in 1..(Len(compressed) - 1) |->
                                   Msg(compressed[j + 1].role, "stored", <<>>, 0,
                                       compressed[j + 1].bytes)]
    /\ resp' = OutMsg("slash", "run", cur)
    /\ pc' = "publish"
    /\ UNCHANGED <<queueVars, ctxDone, cur, nTaken, messages, iter, attempt, calls,
                   nDone, reqs, chk, memory, history, cons, consFailed, toolsUsed,
                   mediaFiles, rounds, rq, sideVars>>

\* handleContext and handleHelp: a report, no state touched
handleReport ==
    /\ pc = "dispatch" /\ cur.kind \in {"/context", "/help"}
    /\ resp' = OutMsg("slash", "run", cur)
    /\ pc' = "publish"
    /\ UNCHANGED <<queueVars, ctxDone, cur, nTaken, turnVars, memVars, sideVars>>

\* processMessage, channel "system": ProcessSystemMessage builds its messages
SystemStart ==
    /\ pc = "dispatch" /\ cur.kind = "system"
    /\ messages' = BuildMessages(<<>>, cur.bytes)
    /\ iter' = 0
    /\ pc' = "loop"
    /\ UNCHANGED <<queueVars, ctxDone, cur, resp, nTaken, attempt, calls, nDone,
                   chatCalls, reqs, chk, memVars, toolsUsed,
                   mediaFiles, rounds, rq, sideVars>>

\* processMessage's consolidation before the turn, when the session is over
\* the window
turnConsolidation(out) ==
    IF needsConsolidation(session)
    THEN consolidateMemory(session, memory, history, FALSE, out)
    ELSE ConsResult(session, memory, history, FALSE)

\* processMessage for a chat message, up to the ReAct loop: consolidate, then
\* build the messages
BeginTurn(out) ==
    /\ pc = "dispatch" /\ cur.kind = "chat"
    /\ LET r == turnConsolidation(out) IN
       /\ session' = r.session
       /\ memory' = r.memory
       /\ history' = r.history
       /\ chatCalls' = chatCalls + (IF r.called THEN 1 ELSE 0)
       /\ cons' = IF needsConsolidation(session)
                  THEN ConsRecord("threshold", r, out) ELSE ConsNone
       /\ consFailed' = (consFailed \/ (r.called /\ out.kind # "ok"))
       /\ messages' = BuildMessages(GetHistory(r.session, memoryWindow), cur.bytes)
    /\ iter' = 0
    /\ pc' = "loop"
    /\ UNCHANGED <<queueVars, ctxDone, cur, resp, nTaken, attempt, calls, nDone,
                   reqs, chk, toolsUsed,
                   mediaFiles, rounds, rq, sideVars>>

\* the head of the ReAct loop: the loop condition and, in processMessage, the
\* pre-call token check; past the last iteration the turn ends with the fallback
LoopHead ==
    /\ pc = "loop"
    /\ IF loopContinues(iter)
       THEN /\ attempt' = 0
            /\ rq' = RqNone
            /\ IF cur.kind = "chat"
               THEN /\ chk' = [made |-> TRUE, tokens |-> estimateTokens(messages),
                               msgs |-> messages, calls |-> chatCalls]
                    /\ pc' = IF needsCompression(messages) THEN "compress" ELSE "chat"
               ELSE /\ chk' = ChkNone
                    /\ pc' = "chat"
            /\ UNCHANGED <<resp, session>>
       ELSE /\ IF cur.kind = "chat" THEN TurnReply(0)
               ELSE SystemReply(0) /\ UNCHANGED session
            /\ UNCHANGED <<attempt, chk, rq>>
    /\ UNCHANGED <<queueVars, ctxDone, cur, nTaken, messages, iter, calls, nDone,
                   chatCalls, reqs, memory, history, cons, consFailed, toolsUsed,
                   mediaFiles, rounds, sideVars>>

\* the pre-call compression of processMessage
PreCompress(ok, sumBytes) ==
    /\ pc = "compress"
    /\ messages' = compressMessages(messages, ok, sumBytes)
    /\ chatCalls' = chatCalls + (IF compressCallsChat(messages) THEN 1 ELSE 0)
    /\ pc' = "chat"
    /\ UNCHANGED <<queueVars, ctxDone, cur, resp, nTaken, iter, attempt, calls, nDone,
                   reqs, chk, memVars, toolsUsed,
                   mediaFiles, rounds, rq, sideVars>>

\* faulty variant: one retry too many
mayRetryOnceMore(n) == n <= maxRetries

\* chatWithRetry's loop goes round after the failure of attempt n
mayRetry(n) == n < maxRetries

\* one provider.Chat of chatWithRetry is made; failed: it returned an error,
\* ret: how chatWithRetry goes on
ChatCounted(failed, ret) ==
    /\ chatCalls' = chatCalls + 1
    /\ reqs' = reqs + (IF attempt = 0 THEN 1 ELSE 0)
    /\ rq' = [calls |-> rq.calls + 1,
              lastErr |-> IF failed THEN rq.calls + 1 ELSE rq.lastErr,
              ret |-> ret]

\* provider.Chat returns an error: chatWithRetry waits for the next attempt, or
\* gives up after the last and the turn fails (ProcessSystemMessage turns the
\* error into its response)
ChatFails ==
    /\ pc = "chat"
    /\ ChatCounted(TRUE, IF mayRetry(attempt) THEN "running" ELSE "err")
    /\ IF mayRetry(attempt)
       THEN /\ attempt' = attempt + 1
            /\ pc' = "backoff"
            /\ UNCHANGED resp
       ELSE /\ IF cur.kind = "chat" THEN TurnError ELSE SystemReply(SystemErrorLen)
            /\ UNCHANGED attempt
    /\ UNCHANGED <<queueVars, ctxDone, cur, nTaken, messages, iter, calls, nDone, chk,
                   memVars, toolsUsed,
                   mediaFiles, rounds, sideVars>>

\* chatWithRetry's select between ctx.Done() and the delay, which is not over
\* when the select is entered: a context cancelled by then or during the wait
\* wins
Backoff(cancelled) ==
    /\ pc = "backoff"
    /\ cancelled = ctxDone
    /\ IF cancelled
       THEN /\ IF cur.kind = "chat" THEN TurnError ELSE SystemReply(SystemErrorLen)
            /\ rq' = [rq EXCEPT !.ret = "ctx"]
       ELSE pc' = "chat" /\ UNCHANGED <<resp, rq>>
    /\ UNCHANGED <<queueVars, ctxDone, cur, nTaken, messages, iter, attempt, calls,
                   nDone, chatCalls, reqs, chk, toolsUsed, mediaFiles, rounds,
                   memVars, sideVars>>

\* the response has no tool calls: it is the final content
ChatFinal(text) ==
    /\ pc = "chat"
    /\ ChatCounted(FALSE, "resp")
    /\ IF cur.kind = "chat" THEN TurnReply(text)
       ELSE SystemReply(text) /\ UNCHANGED session
    /\ UNCHANGED <<queueVars, ctxDone, cur, nTaken, messages, iter, attempt, calls,
                   nDone, chk, memory, history, cons, consFailed, toolsUsed,
                   mediaFiles, rounds, sideVars>>

\* the response carries tool calls: the assistant message is appended
ChatToolCalls(toolCalls) ==
    /\ pc = "chat"
    /\ ChatCounted(FALSE, "resp")
    /\ messages' = AddAssistantMessage(messages, toolCalls)
    /\ calls' = toolCalls
    /\ nDone' = 0
    /\ pc' = "tools"
    /\ UNCHANGED <<queueVars, ctxDone, cur, resp, nTaken, iter, attempt, chk, memVars,
                   toolsUsed,
                   mediaFiles, rounds, sideVars>>

\* processMessage: the response's FinishReason is "error"
ChatErrorFinish ==
    /\ pc = "chat" /\ cur.kind = "chat"
    /\ ChatCounted(FALSE, "resp")
    /\ pc' = "errcompress"
    /\ UNCHANGED <<queueVars, ctxDone, cur, resp, nTaken, messages, iter, attempt,
                   calls, nDone, chk, memVars, toolsUsed,
                   mediaFiles, rounds, sideVars>>

\* the error branch: compress, and go round again only if that saved tokens
ErrCompress(ok, sumBytes) ==
    /\ pc = "errcompress"
    /\ chatCalls' = chatCalls + (IF compressCallsChat(messages) THEN 1 ELSE 0)
    /\ LET compressed == compressMessages(messages, ok, sumBytes) IN
       IF estimateTokens(compressed) < estimateTokens(messages)
       THEN /\ messages' = compressed
            /\ iter' = iterAfterRetry(iter)
            /\ pc' = "loop"
            /\ UNCHANGED resp
       ELSE /\ TurnError
            /\ UNCHANGED <<messages, iter>>
    /\ UNCHANGED <<queueVars, ctxDone, cur, nTaken, attempt, calls, nDone, reqs, chk,
                   memVars, toolsUsed,
                   mediaFiles, rounds, rq, sideVars>>

\* faulty variant: the calls are executed last to first
nextCallReversed(toolCalls, done) == toolCalls[Len(toolCalls) - done]

\* the tool call processMessage executes next
nextCall(toolCalls, done) == toolCalls[done + 1]

\* one tool call is executed through the registry and its result appended;
\* the message tool publishes on the bus while it runs, and a tool that is
\* not registered is not run
ExecuteTool(ran) ==
    /\ pc = "tools" /\ nDone < Len(calls)
    /\ LET tc == nextCall(calls, nDone)
           result == Execute(MainTools, tc.name, ran)
       IN
       /\ ran.bytes \in ResultBytesOf(tc.name)
       /\ tc.name = "message" => ran.media = 0
       /\ tc.name \notin MainTools => ran = Ran(FALSE, 80, 0)
       /\ IF tc.name = "message" /\ ~ran.err
          THEN /\ CanSend(outbound, OutboundCap)
               /\ outbound' = Append(outbound, OutMsg("toolmsg", "tool", cur))
          ELSE UNCHANGED outbound
       /\ messages' = AddToolResult(messages, tc.id, result)
       /\ IF cur.kind = "chat"
          THEN /\ toolsUsed' = Append(toolsUsed, tc.name)
               /\ mediaFiles' = mediaFiles + result.media
          ELSE UNCHANGED <<toolsUsed, mediaFiles>>
    /\ nDone' = nDone + 1
    /\ UNCHANGED <<inbound, ctxDone, pc, cur, resp, nTaken, iter, attempt, calls,
                   chatCalls, reqs, chk, rounds, rq, memVars, sideVars>>

\* faulty variant: the nudge follows every tool round
nudgesAlways(kind, i) == kind = "chat"

\* processMessage's test for the nudge after a tool round: i > 0
\* (ProcessSystemMessage has none)
nudges(kind, i) == kind = "chat" /\ i > 0

\* every call is executed: processMessage adds the nudge when i > 0, and the
\* loop goes round
ToolsDone ==
    /\ pc = "tools" /\ nDone = Len(calls)
    /\ messages' = IF nudges(cur.kind, iter)
                   THEN Append(messages, NudgeMsg) ELSE messages
    /\ iter' = iter + 1
    /\ rounds' = rounds + 1
    /\ pc' = "loop"
    /\ UNCHANGED <<queueVars, ctxDone, cur, resp, nTaken, attempt, calls, nDone,
                   chatCalls, reqs, chk, memVars, toolsUsed,
                   mediaFiles, rq, sideVars>>

\* Run publishes what processMessage returned, or the apology, if there is one
RunPublish ==
    /\ pc = "publish"
    /\ IF resp # NoOut
       THEN /\ CanSend(outbound, OutboundCap)
            /\ outbound' = Append(outbound, resp)
       ELSE UNCHANGED outbound
    /\ pc' = "idle"
    /\ UNCHANGED <<inbound, ctxDone, cur, resp, nTaken, turnVars, memVars, sideVars>>

Next ==
    \/ Cancel
    \/ RunTake
    \/ RunStop
    \/ \E out \in ConsOutcomes : handleNew(out)
    \/ \E ok \in BOOLEAN, sumBytes \in SummaryBytes : handleCompact(ok, sumBytes)
    \/ handleReport
    \/ SystemStart
    \/ \E out \in ConsOutcomes : BeginTurn(out)
    \/ LoopHead
    \/ \E ok \in BOOLEAN, sumBytes \in SummaryBytes : PreCompress(ok, sumBytes)
    \/ ChatFails
    \/ \E cancelled \in BOOLEAN : Backoff(cancelled)
    \/ \E text \in FinalTexts : ChatFinal(text)
    \/ \E toolCalls \in ToolCallLists : ChatToolCalls(toolCalls)
    \/ ChatErrorFinish
    \/ \E ok \in BOOLEAN, sumBytes \in SummaryBytes : ErrCompress(ok, sumBytes)
    \/ \E ran \in OkRuns : ExecuteTool(ran)
    \/ ToolsDone
    \/ RunPublish

Spec == Init /\ [][Next]_vars

----------------------------------------------------------------------------
(* One chat turn in full with failing tools, tools that are not registered *)
(* and media, on a loop whose window is one longer and whose session holds *)
(* long replies                                                            *)

\* a stored transcript of n messages whose assistant entries are long
RECURSIVE LongTranscript(_)
LongTranscript(n) ==
    IF n = 0 THEN <<>>
    ELSE Append(LongTranscript(n - 1),
                IF n % 2 = 1 THEN Msg("user", "stored", <<>>, 0, 40)
                ELSE Msg("assistant", "stored", <<>>, 0, 300))

\* resp.ToolCalls of this specification: also a tool that is not registered
TurnCallLists ==
    { <<Call(1, "exec")>>,
      <<Call(1, "nope"), Call(2, "exec")>>,
      <<Call(1, "message")>> }

InitTurn ==
    /\ inbound = <<InMsg("chat", 40, 1)>>
    /\ outbound = <<>>
    /\ ctxDone = FALSE
    /\ pc = "idle"
    /\ cur = NoMsg
    /\ resp = NoOut
    /\ nTaken = 0
    /\ TurnIdle
    /\ session \in {<<>>, LongTranscript(2 * (MemoryWindow \div 2) + 2)}
    /\ memory = ""
    /\ history = <<>>
    /\ cons = ConsNone
    /\ consFailed = FALSE
    /\ memoryWindow = MemoryWindow + 1
    /\ SideIdle
    /\ BackgroundIdle

NextTurn ==
    \/ Cancel
    \/ RunTake
    \/ RunStop
    \/ \E out \in ConsOutcomes : BeginTurn(out)
    \/ LoopHead
    \/ \E ok \in BOOLEAN, sumBytes \in SummaryBytes : PreCompress(ok, sumBytes)
    \/ ChatFails
    \/ \E cancelled \in BOOLEAN : Backoff(cancelled)
    \/ \E text \in FinalTexts : ChatFinal(text)
    \/ \E toolCalls \in TurnCallLists : ChatToolCalls(toolCalls)
    \/ ChatErrorFinish
    \/ \E ok \in BOOLEAN, sumBytes \in SummaryBytes : ErrCompress(ok, sumBytes)
    \/ \E ran \in AllRuns : ExecuteTool(ran)
    \/ ToolsDone
    \/ RunPublish

SpecTurn == InitTurn /\ [][NextTurn]_vars

----------------------------------------------------------------------------
(* Loop.Run over several inbound messages, each call of processMessage one *)
(* step                                                                    *)

\* faulty variant: a send that gives up when the buffer is full
PublishInboundLossy(msg) ==
    inbound' = IF CanSend(inbound, InboundCap) THEN Append(inbound, msg) ELSE inbound

\* MessageBus.PublishInbound: b.Inbound <- msg
PublishInbound(msg) ==
    /\ CanSend(inbound, InboundCap)
    /\ inbound' = Append(inbound, msg)

\* how many calls of PublishInbound have been made to the loop's bus
published == nTaken + Len(inbound)

\* a channel publishes the next inbound message
ChannelPublish(msg) ==
    /\ published < MaxTurns
    /\ msg.seq = published + 1
    /\ PublishInbound(msg)
    /\ UNCHANGED <<outbound, runVars, turnVars, memVars, sideVars>>

\* processMessage for a chat message, start to return: the consolidation
\* before the turn, the ReAct loop, in which the message tool may publish, and
\* then either the error return or the saved turn and the reply
ChatTurn(out, told, failed) ==
    /\ pc = "dispatch" /\ cur.kind = "chat"
    /\ LET r == turnConsolidation(out) IN
       /\ session' = IF failed THEN r.session ELSE savedTurn(r.session, cur.bytes,
                                        IF told THEN <<"message">> ELSE <<>>)
       /\ memory' = r.memory
       /\ history' = r.history
       /\ cons' = IF needsConsolidation(session)
                  THEN ConsRecord("threshold", r, out) ELSE ConsNone
       /\ consFailed' = (consFailed \/ (r.called /\ out.kind # "ok"))
    /\ IF told
       THEN /\ CanSend(outbound, OutboundCap)
            /\ outbound' = Append(outbound, OutMsg("toolmsg", "tool", cur))
       ELSE UNCHANGED outbound
    /\ resp' = IF failed THEN apologyFor(cur) ELSE OutMsg("reply", "run", cur)
    /\ pc' = "publish"
    /\ UNCHANGED <<inbound, ctxDone, cur, nTaken, turnVars, sideVars>>

\* processMessage for a message of channel "system", start to return
SystemTurn ==
    /\ pc = "dispatch" /\ cur.kind = "system"
    /\ SystemReply(0)
    /\ UNCHANGED <<queueVars, ctxDone, cur, nTaken, turnVars, memVars, sideVars>>

InitRun ==
    /\ inbound = <<>>
    /\ outbound = <<>>
    /\ ctxDone = FALSE
    /\ pc = "idle"
    /\ cur = NoMsg
    /\ resp = NoOut
    /\ nTaken = 0
    /\ TurnIdle
    /\ session \in StoredSessions
    /\ memory = ""
    /\ history = <<>>
    /\ cons = ConsNone
    /\ consFailed = FALSE
    /\ memoryWindow = MemoryWindow
    /\ SideIdle
    /\ BackgroundIdle

NextRun ==
    \/ \E msg \in InboundMsgs(published + 1) : ChannelPublish(msg)
    \/ Cancel
    \/ RunTake
    \/ RunStop
    \/ \E out \in ConsOutcomes : handleNew(out)
    \/ \E ok \in BOOLEAN, sumBytes \in SummaryBytes : handleCompact(ok, sumBytes)
    \/ handleReport
    \/ SystemTurn
    \/ \E out \in ConsOutcomes, told \in BOOLEAN, failed \in BOOLEAN :
          ChatTurn(out, told, failed)
    \/ RunPublish

SpecRun == InitRun /\ [][NextRun]_vars

----------------------------------------------------------------------------
(* bus.Inbound between concurrent producers and its consumer *)

\* the messages already on the channel when the model starts: none, or one
\* short of a full buffer
Prefilled == {0, InboundCap - 1}
QueueOf(n) == [j \in 1..n |-> InMsg("chat", 40, j)]

\* what the producers publish
ProducerMsgs(seq) == {InMsg("chat", 40, seq), InMsg("system", 200, seq)}

\* the producers inside PublishInbound
Sending == {p \in Producers : prod[p] # NoMsg}

\* calls of PublishInbound made so far
called == Len(completed) + Cardinality(Sending)

InitBus ==
    /\ \E n \in Prefilled : inbound = QueueOf(n) /\ completed = QueueOf(n)
    /\ received = <<>>
    /\ prod = [p \in Producers |-> NoMsg]
    /\ outbound = <<>>
    /\ LoopQuiet
    /\ BackgroundIdle
    /\ CompressIdle
    /\ DispatchIdle

\* a channel's goroutine calls PublishInbound(msg)
ProducerCall(p, msg) ==
    /\ prod[p] = NoMsg
    /\ \E n \in Prefilled : n <= called /\ called < n + MaxPublish
    /\ msg.seq = called + 1
    /\ prod' = [prod EXCEPT ![p] = msg]
    /\ UNCHANGED <<loopVars, restVars, compVars, completed, received, dispVars>>

\* the send of PublishInbound goes through and the call returns; while the
\* buffer is full the goroutine stays blocked in it
ProducerSend(p) ==
    /\ prod[p] # NoMsg
    /\ PublishInbound(prod[p])
    /\ completed' = Append(completed, prod[p])
    /\ prod' = [prod EXCEPT ![p] = NoMsg]
    /\ UNCHANGED <<outbound, runVars, turnVars, memVars, restVars, compVars, received, dispVars>>

\* the consumer's msg := <-l.bus.Inbound
Receive ==
    /\ inbound # <<>>
    /\ received' = Append(received, Head(inbound))
    /\ inbound' = Tail(inbound)
    /\ UNCHANGED <<outbound, runVars, turnVars, memVars, restVars, compVars, prod,
                   completed, dispVars>>

NextBus ==
    \/ \E p \in Producers, msg \in ProducerMsgs(called + 1) : ProducerCall(p, msg)
    \/ \E p \in Producers : ProducerSend(p)
    \/ Receive

SpecBus == InitBus /\ [][NextBus]_vars

----------------------------------------------------------------------------
(* MessageBus.DispatchOutbound and MessageBus.recoverSend *)

\* recoverSend's threshold, the length of the truncation marker and of the
\* apology text
TruncateAt == 1500
MarkerLen == 21
ApologyLen == 87

\* the outbound messages dispatched: len(Content) around the threshold, with
\* and without media
ContentLens == {10, TruncateAt, TruncateAt + 1}
MediaCounts == {0, 2}
Payload(content, media) ==
    [OutMsg("reply", "run", NoMsg) EXCEPT !.content = content, !.media = media]

\* an outbound message as the dispatcher sees it: its Channel, and which
\* message of the queue it is
Routed(msg, channel, id) ==
    [kind |-> msg.kind, by |-> msg.by, re |-> msg.re, content |-> msg.content,
     media |-> msg.media, channel |-> channel, id |-> id]

\* the queues dispatched: a first message of every payload, alone or followed
\* by a short one for the same or for another channel
OutboundQueues ==
    {<<Routed(Payload(c, m), "a", 1)>> : c \in ContentLens, m \in MediaCounts}
        \cup {<<Routed(Payload(c, m), "a", 1), Routed(Payload(10, 0), ch, 2)>> :
                 c \in ContentLens, m \in MediaCounts, ch \in Channels}

\* faulty variant: the handlers of every channel
subscribedAnywhere(subs, channel) == subs["a"] \o subs["b"]

\* b.subscribers[msg.Channel]
subscribedTo(subs, channel) == subs[channel]

\* the handlers of a list
Range(seq) == {seq[i] : i \in 1..Len(seq)}

\* one call of a handler: which handler, for which strategy (0 the original
\* dispatch, 1..3 those of recoverSend), what the message sent carried, and
\* whether the handler returned nil
Attempt(h, strategy, content, media, ok) ==
    [handler |-> h, strategy |-> strategy, content |-> content, media |-> media,
     ok |-> ok]

\* faulty variant: no strategy is ever skipped
strategyAppliesAlways(strategy, msg) == TRUE

\* the conditions under which recoverSend tries a strategy
strategyApplies(strategy, msg) ==
    CASE strategy = 1 -> msg.media > 0
      [] strategy = 2 -> msg.content > TruncateAt
      [] OTHER -> TRUE

\* the first strategy from this one on that recoverSend tries
nextStrategy(strategy, msg) ==
    CHOOSE t \in strategy..3 :
        /\ strategyApplies(t, msg)
        /\ \A u \in strategy..(t - 1) : ~strategyApplies(u, msg)

\* len(Content) of the message a strategy sends; none carries media
sentContent(strategy, msg) ==
    CASE strategy = 1 -> msg.content
      [] strategy = 2 -> TruncateAt + MarkerLen
      [] OTHER -> ApologyLen

InitDispatch ==
    /\ inbound = <<>>
    /\ outbound \in OutboundQueues
    /\ LoopQuiet
    /\ BackgroundIdle
    /\ CompressIdle
    /\ BusIdle
    /\ dPc = "idle"
    /\ dMsg = NoOut
    /\ hIdx = 0
    /\ stage = 0
    /\ log = <<>>
    /\ subscribers = [c \in Channels |-> <<>>]
    /\ handlers = <<>>
    /\ primary = <<>>

\* Subscribe: a channel's start-up registers its handler
Subscribe(channel, h) ==
    /\ Len(subscribers[channel]) < NumHandlers
    /\ h \notin Range(subscribers[channel])
    /\ subscribers' = [subscribers EXCEPT ![channel] = Append(@, h)]
    /\ UNCHANGED <<loopVars, restVars, compVars, busVars, dPc, dMsg, hIdx, stage,
                   log, handlers, primary>>

\* DispatchOutbound's select, case msg := <-b.Outbound
DispatchTake ==
    /\ dPc = "idle"
    /\ outbound # <<>>
    /\ dMsg' = Head(outbound)
    /\ outbound' = Tail(outbound)
    /\ hIdx' = 0
    /\ stage' = 0
    /\ log' = <<>>
    /\ handlers' = subscribedTo(subscribers, Head(outbound).channel)
    /\ primary' = Append(primary,
                         [msg |-> Head(outbound),
                          subs |-> subscribers[Head(outbound).channel],
                          calls |-> <<>>, failed |-> {}])
    /\ dPc' = IF handlers' # <<>> THEN "call" ELSE "idle"
    /\ UNCHANGED <<inbound, runVars, turnVars, memVars, restVars, compVars, busVars,
                   subscribers>>

\* DispatchOutbound's select, case <-ctx.Done()
DispatchStop ==
    /\ dPc = "idle"
    /\ ctxDone
    /\ dPc' = "stopped"
    /\ UNCHANGED <<loopVars, restVars, compVars, busVars, dMsg, hIdx, stage, log,
                   subscribers, handlers, primary>>

\* h(ctx, msg) in the range loop; on an error recoverSend is entered
HandlerCall(ok) ==
    /\ dPc = "call"
    /\ log' = Append(log, Attempt(hIdx, 0, dMsg.content, dMsg.media, ok))
    /\ primary' = [primary EXCEPT
                       ![Len(primary)].calls = Append(@, handlers[hIdx + 1]),
                       ![Len(primary)].failed =
                           IF ok THEN @ ELSE @ \cup {handlers[hIdx + 1]}]
    /\ IF ok
       THEN dPc' = "next" /\ UNCHANGED stage
       ELSE dPc' = "recover" /\ stage' = nextStrategy(1, dMsg)
    /\ UNCHANGED <<loopVars, restVars, compVars, busVars, dMsg, hIdx, subscribers,
                   handlers>>

\* recoverSend makes the call of the strategy it is at, and returns or moves
\* to the next one it tries
Recover(ok) ==
    /\ dPc = "recover"
    /\ log' = Append(log, Attempt(hIdx, stage, sentContent(stage, dMsg), 0, ok))
    /\ IF ok \/ stage = 3
       THEN dPc' = "next" /\ UNCHANGED stage
       ELSE dPc' = "recover" /\ stage' = nextStrategy(stage + 1, dMsg)
    /\ UNCHANGED <<loopVars, restVars, compVars, busVars, dMsg, hIdx, subscribers,
                   handlers, primary>>

\* the range loop moves to the next handler, or the message is done
DispatchNext ==
    /\ dPc = "next"
    /\ hIdx' = hIdx + 1
    /\ stage' = 0
    /\ log' = <<>>
    /\ dPc' = IF hIdx + 1 < Len(handlers) THEN "call" ELSE "idle"
    /\ UNCHANGED <<loopVars, restVars, compVars, busVars, dMsg, subscribers,
                   handlers, primary>>

NextDispatch ==
    \/ Cancel
    \/ \E channel \in Channels, h \in 1..NumHandlers : Subscribe(channel, h)
    \/ DispatchTake
    \/ DispatchStop
    \/ \E ok \in BOOLEAN : HandlerCall(ok)
    \/ \E ok \in BOOLEAN : Recover(ok)
    \/ DispatchNext

SpecDispatch == InitDispatch /\ [][NextDispatch]_vars

----------------------------------------------------------------------------
(* compressMessages on its own: every message list up to MaxLen *)

\* lists whose j-th message is recognisable: its size is its position
RoleLists == UNION {[1..n -> Roles \ {"system"}] : n \in 0..(MaxLen - 1)}

ListOf(rs) ==
    <<Msg("system", "system", <<>>, 0, 40)>>
        \o [j \in 1..Len(rs) |-> Msg(rs[j], "m", <<>>, 0, 8 + j)]

InitCompress ==
    /\ LoopIdle
    /\ BackgroundIdle
    /\ BusIdle
    /\ DispatchIdle
    /\ cM \in {ListOf(rs) : rs \in RoleLists}
    /\ cOut = <<>>
    /\ cPc = "in"
    /\ cOk = TRUE

CompressCall(ok, sumBytes) ==
    /\ cPc = "in"
    /\ cOut' = compressMessages(cM, ok, sumBytes)
    /\ cOk' = ok
    /\ cPc' = "out"
    /\ UNCHANGED <<cM, loopVars, busVars, dispVars, restVars>>

NextCompress ==
    \E ok \in BOOLEAN, sumBytes \in SummaryBytes : CompressCall(ok, sumBytes)

SpecCompress == InitCompress /\ [][NextCompress]_vars

----------------------------------------------------------------------------
(* SubagentManager: Spawn, run, executeTask, announceResult; the spawn tool;
   the main loop's turn for an announcement *)

MaxSpawns == 1
subMaxIterations == 15

Cli == <<"c", "l", "i">>
Direct == <<"d", "i", "r", "e", "c", "t">>

\* the (msg.Channel, msg.ChatID) processMessage hands to SetContext: a channel
\* name holds no ':', a chat id may, and either may be empty
BoundContexts ==
    { NoContext,
      [channel |-> <<"d">>, chatID |-> <<":", "7", ":">>] }

\* SpawnTool.Execute's channel and chatID: the defaults replace empty ones
spawnOrigin(c) ==
    [channel |-> IF c.channel = <<>> THEN Cli ELSE c.channel,
     chatID |-> IF c.chatID = <<>> THEN Direct ELSE c.chatID]

\* faulty variant: the last occurrence
LastIndex(s, sep) ==
    IF \E k \in 1..Len(s) : s[k] = sep
    THEN (CHOOSE k \in 1..Len(s) :
              s[k] = sep /\ \A m \in (k + 1)..Len(s) : s[m] # sep) - 1
    ELSE -1

\* strings.Index(s, sep) for a one-character sep: the 0-based position of its
\* first occurrence, or -1
Index(s, sep) ==
    IF \E k \in 1..Len(s) : s[k] = sep
    THEN (CHOOSE k \in 1..Len(s) :
              s[k] = sep /\ \A m \in 1..(k - 1) : s[m] # sep) - 1
    ELSE -1

\* announceResult's ChatID: fmt.Sprintf("%s:%s", originChannel, originChatID)
announceChatID(origin) == origin.channel \o <<":">> \o origin.chatID

\* ProcessSystemMessage's parse of chatID: ("cli", chatID) without a ':',
\* else chatID[:i] and chatID[i+1:]
parseOrigin(chatID) ==
    LET i == Index(chatID, ":") IN
    IF i >= 0
    THEN [channel |-> SubSeq(chatID, 1, i),
          chatID |-> SubSeq(chatID, i + 2, Len(chatID))]
    ELSE [channel |-> Cli, chatID |-> chatID]

\* the values time.Now().UnixNano() % 0xFFFFFFFF takes in the model:
\* 0xFFFFFFF, 0x10000000, 0x7FFFFFFF
ClockValues == {268435455, 268435456, 2147483647}

\* len(fmt.Sprintf("%x", v))
RECURSIVE HexLen(_)
HexLen(v) == IF v < 16 THEN 1 ELSE 1 + HexLen(v \div 16)

\* whether fmt.Sprintf("%x", v)[:8] is within the string; when it is, the 8
\* characters are all of them and the task id is told by v
taskIDInRange(v) == HexLen(v) >= 8

\* faulty variant: the subagent is given the main agent's registry
SubToolsAsMain == MainTools

\* the tools executeTask registers: file tools and the shell
SubTools == {"exec"}

\* the tool-call lists a subagent's model asks for
SubCallLists == {<<"exec">>, <<"message">>, <<"spawn">>}
SubOutcomes ==
    {[kind |-> "err", calls |-> <<>>], [kind |-> "final", calls |-> <<>>]}
        \cup {[kind |-> "toolcalls", calls |-> cs] : cs \in SubCallLists}

\* the goroutine Spawn starts with `go m.run(...)`
NewSub(taskID, origin, by) ==
    [taskID |-> taskID, origin |-> origin, by |-> by, pc |-> "chat", iter |-> 0,
     calls |-> <<>>, nDone |-> 0, last |-> "none", status |-> "none",
     announced |-> 0]

\* the message announceResult publishes
Announcement(i, origin, status) ==
    [kind |-> "system", sender |-> "subagent", by |-> i,
     chatID |-> announceChatID(origin),
     status |-> IF status = "error" THEN "error" ELSE "ok"]

\* an outbound message with its address
OutTo(origin, by, re) ==
    [kind |-> "reply", by |-> by, re |-> re,
     channel |-> origin.channel, chatID |-> origin.chatID]

\* SubagentManager.Spawn on the state st = [tasks, sub, crashed]: slicing a
\* task id shorter than 8 characters panics, and nothing recovers
Spawn(st, origin, clock, by) ==
    IF taskIDInRange(clock)
    THEN [tasks |-> st.tasks \cup {clock},
          sub |-> Append(st.sub, NewSub(clock, origin, by)),
          crashed |-> st.crashed]
    ELSE [st EXCEPT !.crashed = TRUE]

\* SubagentManager.RunningCount
RunningCount == Cardinality(tasks)

InitSub ==
    /\ LoopIdle
    /\ SideIdle
    /\ BackgroundIdle

\* the main agent's model calls the spawn tool: in a chat turn, where
\* processMessage has SetContext bind the tool to the message's chat, or in
\* the turn of an announcement, which leaves the binding as it was (c = toolCtx)
SpawnToolExecute(c, clock) ==
    /\ ~crashed
    /\ spawnCalls < MaxSpawns
    /\ toolCtx' = c
    /\ LET st == Spawn([tasks |-> tasks, sub |-> sub, crashed |-> crashed],
                       spawnOrigin(c), clock, "main")
       IN /\ tasks' = st.tasks
          /\ sub' = st.sub
          /\ crashed' = st.crashed
    /\ spawnCalls' = spawnCalls + 1
    /\ UNCHANGED <<loopVars, compVars, busVars, dispVars, cfgVars, cronVars, extVars>>

\* executeTask: chatWithRetry returned an error (that of the provider or of
\* a cancelled context), a final answer, or tool calls; i is dead after the
\* return
SubChat(i, out) ==
    /\ ~crashed
    /\ i \in 1..Len(sub) /\ sub[i].pc = "chat"
    /\ sub' = [sub EXCEPT ![i] =
                 IF out.kind = "err"
                 THEN [@ EXCEPT !.status = "error", !.iter = 0, !.pc = "announce"]
                 ELSE IF out.kind = "final"
                 THEN [@ EXCEPT !.status = "ok", !.iter = 0, !.pc = "announce"]
                 ELSE [@ EXCEPT !.calls = out.calls, !.nDone = 0, !.pc = "tools"]]
    /\ UNCHANGED <<loopVars, compVars, busVars, dispVars, cfgVars, cronVars, extVars,
                   tasks, toolCtx, crashed, spawnCalls>>

\* executeTask executes the next tool call through its own registry; a
\* message tool found there would publish outbound, a spawn tool would Spawn
SubTool(i, ran, clock) ==
    /\ ~crashed
    /\ i \in 1..Len(sub) /\ sub[i].pc = "tools" /\ sub[i].nDone < Len(sub[i].calls)
    /\ LET name == sub[i].calls[sub[i].nDone + 1]
           result == Execute(SubTools, name, ran)
           ran1 == [sub EXCEPT ![i] = [@ EXCEPT !.nDone = @ + 1, !.last = result.kind]]
           spawns == name = "spawn" /\ result.kind = "result"
           st == IF spawns
                 THEN Spawn([tasks |-> tasks, sub |-> ran1, crashed |-> crashed],
                            spawnOrigin(toolCtx), clock, i)
                 ELSE [tasks |-> tasks, sub |-> ran1, crashed |-> crashed]
       IN /\ name \notin SubTools => ran = Ran(FALSE, 80, 0)
          /\ ran.bytes = 80 /\ ran.media = 0
          /\ ~spawns => clock = 0
          /\ spawns => clock \in ClockValues
          /\ tasks' = st.tasks /\ sub' = st.sub /\ crashed' = st.crashed
          /\ spawnCalls' = IF spawns THEN spawnCalls + 1 ELSE spawnCalls
          /\ IF name = "message" /\ result.kind = "result"
             THEN /\ CanSend(outbound, OutboundCap)
                  /\ outbound' = Append(outbound, OutTo(spawnOrigin(toolCtx), "sub", NoMsg))
             ELSE UNCHANGED outbound
    /\ UNCHANGED <<inbound, runVars, turnVars, memVars, compVars, busVars,
                   dispVars, cfgVars, cronVars, extVars, toolCtx>>

\* the calls of the response are executed: the next iteration, or the end of
\* the for loop
SubRoundDone(i) ==
    /\ ~crashed
    /\ i \in 1..Len(sub) /\ sub[i].pc = "tools" /\ sub[i].nDone = Len(sub[i].calls)
    /\ sub' = [sub EXCEPT ![i] =
                 IF @.iter + 1 < subMaxIterations
                 THEN [@ EXCEPT !.iter = @ + 1, !.calls = <<>>, !.nDone = 0,
                                !.pc = "chat"]
                 ELSE [@ EXCEPT !.iter = 0, !.calls = <<>>, !.nDone = 0,
                                !.status = "exhausted", !.pc = "announce"]]
    /\ UNCHANGED <<loopVars, compVars, busVars, dispVars, cfgVars, cronVars, extVars,
                   tasks, toolCtx, crashed, spawnCalls>>

\* announceResult: PublishInbound of the announcement
SubAnnounce(i) ==
    /\ ~crashed
    /\ i \in 1..Len(sub) /\ sub[i].pc = "announce"
    /\ PublishInbound(Announcement(i, sub[i].origin, sub[i].status))
    /\ sub' = [sub EXCEPT ![i] = [@ EXCEPT !.announced = @ + 1, !.pc = "cleanup"]]
    /\ UNCHANGED <<outbound, runVars, turnVars, memVars, compVars, busVars,
                   dispVars, cfgVars, cronVars, extVars, tasks, toolCtx, crashed, spawnCalls>>

\* run's deferred delete(m.tasks, taskID)
SubCleanup(i) ==
    /\ ~crashed
    /\ i \in 1..Len(sub) /\ sub[i].pc = "cleanup"
    /\ tasks' = tasks \ {sub[i].taskID}
    /\ sub' = [sub EXCEPT ![i] = [@ EXCEPT !.pc = "done"]]
    /\ UNCHANGED <<loopVars, compVars, busVars, dispVars, cfgVars, cronVars, extVars,
                   toolCtx, crashed, spawnCalls>>

\* Run takes an announcement, processMessage has ProcessSystemMessage parse
\* its chat id, and Run publishes the answer to the parsed address
AnnouncementTurn ==
    /\ ~crashed
    /\ inbound # <<>>
    /\ CanSend(outbound, OutboundCap)
    /\ inbound' = Tail(inbound)
    /\ outbound' = Append(outbound,
                          OutTo(parseOrigin(Head(inbound).chatID), "run", Head(inbound)))
    /\ UNCHANGED <<runVars, turnVars, memVars, sideVars>>

NextSub ==
    \/ \E c \in BoundContexts, clock \in ClockValues : SpawnToolExecute(c, clock)
    \/ \E i \in 1..MaxSpawns, out \in SubOutcomes : SubChat(i, out)
    \/ \E i \in 1..MaxSpawns, ran \in AllRuns, clock \in ClockValues \cup {0} :
           SubTool(i, ran, clock)
    \/ \E i \in 1..MaxSpawns : SubRoundDone(i)
    \/ \E i \in 1..MaxSpawns : SubAnnounce(i)
    \/ \E i \in 1..MaxSpawns : SubCleanup(i)
    \/ AnnouncementTurn

SpecSub == InitSub /\ [][NextSub]_vars

----------------------------------------------------------------------------
(* cron.Service: the ticker (onTimer, executeJob) and AddJob, RemoveJob,
   EnableJob; every section under s.mu is one step, the callback runs
   between two of them *)

MaxJobs == 1
MaxTime == 4

\* Schedule of kind "at" and of kind "every"
AtSched(atMs) == [kind |-> "at", atMs |-> atMs, everyMs |-> 0]
EverySched(everyMs) == [kind |-> "every", atMs |-> 0, everyMs |-> everyMs]

\* what AddJob is called with: a schedule and deleteAfterRun
JobSpec(sched, del) == [sched |-> sched, deleteAfterRun |-> del]
JobSpecs ==
    { JobSpec(AtSched(1), FALSE), JobSpec(AtSched(3), FALSE), JobSpec(AtSched(3), TRUE),
      JobSpec(EverySched(1), FALSE), JobSpec(EverySched(0), FALSE) }

\* faulty variant: an "at" time is taken whether or not it has passed
computeNextRunAnyAt(sched, t) ==
    IF sched.kind = "at" THEN sched.atMs
    ELSE IF sched.everyMs <= 0 THEN 0 ELSE t + sched.everyMs

\* computeNextRun, for the kinds "at" and "every"
computeNextRun(sched, t) ==
    IF sched.kind = "at"
    THEN IF sched.atMs > t THEN sched.atMs ELSE 0
    ELSE IF sched.everyMs <= 0 THEN 0 ELSE t + sched.everyMs

\* the Job AddJob makes; fires is a history field: how often the callback
\* has been invoked for the job
NewJob(js, t) ==
    [sched |-> js.sched, deleteAfterRun |-> js.deleteAfterRun, enabled |-> TRUE,
     nextRunAtMs |-> computeNextRun(js.sched, t), lastRunAtMs |-> 0,
     lastStatus |-> "", lastError |-> FALSE, fires |-> 0]

\* onTimer's test for a due job
isDue(job, t) == job.enabled /\ job.nextRunAtMs > 0 /\ t >= job.nextRunAtMs

\* removeJobLocked
removeJobLocked(jobs, id) == SelectSeq(jobs, LAMBDA x : x # id)

InStore(id) == \E k \in 1..Len(store) : store[k] = id

\* faulty variant: the next run is counted from the start of the firing
executeJobDoneFromStart(job, startMs, t) ==
    IF job.sched.kind = "at"
    THEN IF job.deleteAfterRun THEN [job EXCEPT !.lastRunAtMs = startMs]
         ELSE [job EXCEPT !.lastRunAtMs = startMs, !.enabled = FALSE,
                          !.nextRunAtMs = 0]
    ELSE [job EXCEPT !.lastRunAtMs = startMs,
                     !.nextRunAtMs = computeNextRun(job.sched, startMs)]

\* executeJob's writes to the job after the callback (lines 115-127); the
\* removal of a deleteAfterRun job is the store's
executeJobDone(job, startMs, t) ==
    IF job.sched.kind = "at"
    THEN IF job.deleteAfterRun THEN [job EXCEPT !.lastRunAtMs = startMs]
         ELSE [job EXCEPT !.lastRunAtMs = startMs, !.enabled = FALSE,
                          !.nextRunAtMs = 0]
    ELSE [job EXCEPT !.lastRunAtMs = startMs,
                     !.nextRunAtMs = computeNextRun(job.sched, t)]

nonCronVars ==
    <<loopVars, compVars, busVars, dispVars, cfgVars, subVars, extVars>>

InitCron ==
    /\ LoopIdle
    /\ SideIdle
    /\ BackgroundIdle

\* time passes
Advance ==
    /\ now < MaxTime
    /\ now' = now + 1
    /\ UNCHANGED <<obj, store, tPc, due, firing, nonCronVars>>

AddJob(js) ==
    /\ Len(obj) < MaxJobs
    /\ obj' = Append(obj, NewJob(js, now))
    /\ store' = Append(store, Len(obj) + 1)
    /\ UNCHANGED <<now, tPc, due, firing, nonCronVars>>

RemoveJob(id) ==
    /\ InStore(id)
    /\ store' = removeJobLocked(store, id)
    /\ UNCHANGED <<now, obj, tPc, due, firing, nonCronVars>>

EnableJob(id, enabled) ==
    /\ InStore(id)
    /\ obj' = [obj EXCEPT ![id] =
                 [@ EXCEPT !.enabled = enabled,
                           !.nextRunAtMs = IF enabled
                                           THEN computeNextRun(obj[id].sched, now)
                                           ELSE 0]]
    /\ UNCHANGED <<now, store, tPc, due, firing, nonCronVars>>

\* a tick: onTimer collects the due jobs under the lock
OnTimer ==
    /\ tPc = "idle"
    /\ due' = SelectSeq(store, LAMBDA id : isDue(obj[id], now))
    /\ tPc' = "loop"
    /\ UNCHANGED <<now, obj, store, firing, nonCronVars>>

\* executeJob takes startMs and invokes the callback
ExecuteStart ==
    /\ tPc = "loop" /\ due # <<>>
    /\ firing' = [id |-> Head(due), startMs |-> now, err |-> FALSE]
    /\ obj' = [obj EXCEPT ![Head(due)] = [@ EXCEPT !.fires = @ + 1]]
    /\ tPc' = "callback"
    /\ UNCHANGED <<now, store, due, nonCronVars>>

\* the callback returns and executeJob records its status under the lock
CallbackReturns(err) ==
    /\ tPc = "callback"
    /\ obj' = [obj EXCEPT ![firing.id] =
                 [@ EXCEPT !.lastStatus = IF err THEN "error" ELSE "ok",
                           !.lastError = err]]
    /\ firing' = [firing EXCEPT !.err = err]
    /\ tPc' = "finish"
    /\ UNCHANGED <<now, store, due, nonCronVars>>

\* executeJob's last section under the lock
ExecuteDone ==
    /\ tPc = "finish"
    /\ obj' = [obj EXCEPT ![firing.id] = executeJobDone(@, firing.startMs, now)]
    /\ store' = IF obj[firing.id].sched.kind = "at" /\ obj[firing.id].deleteAfterRun
                THEN removeJobLocked(store, firing.id) ELSE store
    /\ due' = Tail(due)
    /\ firing' = NoFiring
    /\ tPc' = "loop"
    /\ UNCHANGED <<now, nonCronVars>>

\* every due job is executed: onTimer returns to Run's select
TimerDone ==
    /\ tPc = "loop" /\ due = <<>>
    /\ tPc' = "idle"
    /\ UNCHANGED <<now, obj, store, due, firing, nonCronVars>>

NextCron ==
    \/ Advance
    \/ \E js \in JobSpecs : AddJob(js)
    \/ \E id \in 1..MaxJobs : RemoveJob(id)
    \/ \E id \in 1..MaxJobs, enabled \in BOOLEAN : EnableJob(id, enabled)
    \/ OnTimer
    \/ ExecuteStart
    \/ \E err \in BOOLEAN : CallbackReturns(err)
    \/ ExecuteDone
    \/ TimerDone

SpecCron == InitCron /\ [][NextCron]_vars

----------------------------------------------------------------------------
(* nextCronRun: the search for the next matching minute. Times are minutes
   since 2023-01-01 00:00 UTC, a Sunday; years have 365 days. A zone is its
   offset from UTC in minutes. *)

\* the days before the end of each month
MonthEnds == <<31, 59, 90, 120, 151, 181, 212, 243, 273, 304, 334, 365>>

\* t.In(loc): the local clock reading, as minutes since the local epoch
LocalOf(t, zone) == t + zone
DayIndex(t, zone) == LocalOf(t, zone) \div 1440
DayOfYear(t, zone) == DayIndex(t, zone) % 365

\* t.Minute(), t.Hour(), t.Weekday(), t.Month(), t.Day()
MinuteOf(t, zone) == LocalOf(t, zone) % 60
HourOf(t, zone) == (LocalOf(t, zone) \div 60) % 24
WeekdayOf(t, zone) == DayIndex(t, zone) % 7
MonthOf(t, zone) ==
    CHOOSE k \in 1..12 :
        /\ DayOfYear(t, zone) < MonthEnds[k]
        /\ \A m \in 1..(k - 1) : DayOfYear(t, zone) >= MonthEnds[m]
DayOf(t, zone) ==
    LET k == MonthOf(t, zone) IN
    DayOfYear(t, zone) - (IF k = 1 THEN 0 ELSE MonthEnds[k - 1]) + 1

\* the test of the search loop
cronMatches(e, t, zone) ==
    /\ MonthOf(t, zone) \in e.months
    /\ DayOf(t, zone) \in e.doms
    /\ WeekdayOf(t, zone) \in e.dows
    /\ HourOf(t, zone) \in e.hours
    /\ MinuteOf(t, zone) \in e.minutes

\* time.Date(t.Year(), t.Month()+1, 1, 0, 0, 0, 0, loc)
firstOfNextMonth(t, zone) ==
    LET year == DayIndex(t, zone) \div 365 IN
    (year * 365 + MonthEnds[MonthOf(t, zone)]) * 1440 - zone

\* time.Date(t.Year(), t.Month(), t.Day()+1, 0, 0, 0, 0, loc)
nextDay(t, zone) == (DayIndex(t, zone) + 1) * 1440 - zone

\* t.Truncate(time.Hour).Add(time.Hour): Truncate rounds the absolute time,
\* not the local clock reading
nextHour(t, zone) == (t - (t % 60)) + 60

\* the fields as parseCronField returns them
Expr(minutes, hours, doms, months, dows) ==
    [minutes |-> minutes, hours |-> hours, doms |-> doms, months |-> months,
     dows |-> dows]

\* "0 11 * * *", "*/30 * * * 1", "0 0 31 2 *", "15 3 1 * *"
CronExprs ==
    { Expr({0}, {11}, 1..31, 1..12, 0..6),
      Expr({0, 30}, 0..23, 1..31, 1..12, {1}),
      Expr({0}, {0}, {31}, {2}, 0..6),
      Expr({15}, {3}, {1}, 1..12, 0..6) }

\* UTC and UTC+05:30
Zones == {0, 330}

\* the minute nowMs lies in: 2023-01-01 00:00 and 2023-01-30 22:59 UTC
StartMinutes == {0, 43139}

InitExpr ==
    /\ LoopIdle
    /\ SideIdle
    /\ SubIdle /\ CronIdle /\ EntryIdle /\ PersistIdle /\ ConfigIdle /\ PathIdle /\ FieldIdle /\ ChatIdle /\ KeyIdle
    /\ xIn \in [expr : CronExprs, zone : Zones, t0 : StartMinutes]
    /\ xT = 0
    /\ xEnd = 0
    /\ xPc = "start"
    /\ xRes = 0

nonExprVars ==
    <<loopVars, compVars, busVars, dispVars, cfgVars, subVars, cronVars, entryVars,
      persistVars, configVars, pathVars, fieldVars, chatVars, keyVars>>

\* t = t.Truncate(time.Minute).Add(time.Minute); end = t.Add(366 days)
SearchStart ==
    /\ xPc = "start"
    /\ xT' = xIn.t0 + 1
    /\ xEnd' = xIn.t0 + 1 + 366 * 1440
    /\ xPc' = "loop"
    /\ UNCHANGED <<xIn, xRes, nonExprVars>>

SearchFound ==
    /\ xPc = "loop" /\ xT < xEnd
    /\ cronMatches(xIn.expr, xT, xIn.zone)
    /\ xRes' = xT
    /\ xPc' = "done"
    /\ UNCHANGED <<xIn, xT, xEnd, nonExprVars>>

SearchJumpMonth ==
    /\ xPc = "loop" /\ xT < xEnd
    /\ MonthOf(xT, xIn.zone) \notin xIn.expr.months
    /\ xT' = firstOfNextMonth(xT, xIn.zone)
    /\ UNCHANGED <<xIn, xEnd, xPc, xRes, nonExprVars>>

SearchJumpDay ==
    /\ xPc = "loop" /\ xT < xEnd
    /\ MonthOf(xT, xIn.zone) \in xIn.expr.months
    /\ \/ DayOf(xT, xIn.zone) \notin xIn.expr.doms
       \/ WeekdayOf(xT, xIn.zone) \notin xIn.expr.dows
    /\ xT' = nextDay(xT, xIn.zone)
    /\ UNCHANGED <<xIn, xEnd, xPc, xRes, nonExprVars>>

SearchJumpHour ==
    /\ xPc = "loop" /\ xT < xEnd
    /\ MonthOf(xT, xIn.zone) \in xIn.expr.months
    /\ DayOf(xT, xIn.zone) \in xIn.expr.doms
    /\ WeekdayOf(xT, xIn.zone) \in xIn.expr.dows
    /\ HourOf(xT, xIn.zone) \notin xIn.expr.hours
    /\ xT' = nextHour(xT, xIn.zone)
    /\ UNCHANGED <<xIn, xEnd, xPc, xRes, nonExprVars>>

SearchNextMinute ==
    /\ xPc = "loop" /\ xT < xEnd
    /\ MonthOf(xT, xIn.zone) \in xIn.expr.months
    /\ DayOf(xT, xIn.zone) \in xIn.expr.doms
    /\ WeekdayOf(xT, xIn.zone) \in xIn.expr.dows
    /\ HourOf(xT, xIn.zone) \in xIn.expr.hours
    /\ MinuteOf(xT, xIn.zone) \notin xIn.expr.minutes
    /\ xT' = xT + 1
    /\ UNCHANGED <<xIn, xEnd, xPc, xRes, nonExprVars>>

\* the loop ends without a match
SearchGiveUp ==
    /\ xPc = "loop" /\ xT >= xEnd
    /\ xRes' = 0
    /\ xPc' = "done"
    /\ UNCHANGED <<xIn, xT, xEnd, nonExprVars>>

NextExpr ==
    \/ SearchStart
    \/ SearchFound
    \/ SearchJumpMonth
    \/ SearchJumpDay
    \/ SearchJumpHour
    \/ SearchNextMinute
    \/ SearchGiveUp

SpecExpr == InitExpr /\ [][NextExpr]_vars

----------------------------------------------------------------------------
(* The Loop's entry points: Run, which takes messages from the bus, and
   ProcessDirect, which a caller invokes; both run processMessage on the one
   Loop and its one tool registry *)

MaxReads == 3

\* the chats of the messages on the bus, and the chat of a direct call
Chat(channel, chatID) == [channel |-> channel, chatID |-> chatID]
BusChats == <<Chat(<<"d">>, <<"1">>), Chat(<<"d">>, <<"2">>)>>
DirectChat == Chat(<<"c", "l", "i">>, <<"d", "e", "f", "a", "u", "l", "t">>)

\* faulty variant: the tools keep the chat they were bound to
boundContextKept(old, chat) == old

\* mt.SetContext and st.SetContext: the tools' chat after processMessage has
\* bound them to the chat of its message
boundContext(old, chat) == chat

InitEntry ==
    /\ LoopQuiet
    /\ inbound = BusChats /\ outbound = <<>>
    /\ SideIdle
    /\ SubIdle /\ CronIdle /\ ExprIdle /\ PersistIdle /\ ConfigIdle /\ PathIdle /\ FieldIdle /\ ChatIdle /\ KeyIdle
    /\ EntryIdle

nonEntryVars ==
    <<outbound, runVars, turnVars, memVars, compVars, busVars, dispVars, cfgVars,
      cronVars, exprVars, persistVars, configVars, pathVars, fieldVars, chatVars, keyVars>>

\* Run's select takes the next message and calls processMessage
RunReceives ==
    /\ ePc["run"] = "idle"
    /\ inbound # <<>>
    /\ inbound' = Tail(inbound)
    /\ ePc' = [ePc EXCEPT !["run"] = "taken"]
    /\ eMsg' = [eMsg EXCEPT !["run"] = Head(inbound)]
    /\ UNCHANGED <<eDirty, eCalls, subVars, nonEntryVars>>

\* a caller invokes ProcessDirect, whatever Run is doing
DirectInvoked ==
    /\ ePc["direct"] = "idle"
    /\ ePc' = [ePc EXCEPT !["direct"] = "taken"]
    /\ eMsg' = [eMsg EXCEPT !["direct"] = DirectChat]
    /\ UNCHANGED <<inbound, eDirty, eCalls, subVars, nonEntryVars>>

\* processMessage binds the message and spawn tools to its message's chat
BindsContext(e) ==
    /\ ePc[e] = "taken"
    /\ toolCtx' = boundContext(toolCtx, eMsg[e])
    /\ ePc' = [ePc EXCEPT ![e] = "bound"]
    /\ eDirty' = [x \in EntryPoints |-> x # e /\ ePc[x] = "bound"]
    /\ UNCHANGED <<inbound, eMsg, eCalls, tasks, sub, crashed, spawnCalls,
                   nonEntryVars>>

\* a tool call of the turn: the message or spawn tool reads its chat
ToolReads(e) ==
    /\ ePc[e] = "bound"
    /\ Len(eCalls) < MaxReads
    /\ eCalls' = Append(eCalls, [by |-> e, bound |-> eMsg[e], read |-> toolCtx,
                                 dirty |-> eDirty[e]])
    /\ UNCHANGED <<inbound, ePc, eMsg, eDirty, subVars, nonEntryVars>>

\* processMessage returns
TurnReturns(e) ==
    /\ ePc[e] = "bound"
    /\ ePc' = [ePc EXCEPT ![e] = "idle"]
    /\ UNCHANGED <<inbound, eMsg, eDirty, eCalls, subVars, nonEntryVars>>

NextEntry ==
    \/ RunReceives
    \/ DirectInvoked
    \/ \E e \in EntryPoints : BindsContext(e)
    \/ \E e \in EntryPoints : ToolReads(e)
    \/ \E e \in EntryPoints : TurnReturns(e)

SpecEntry == InitEntry /\ [][NextEntry]_vars

----------------------------------------------------------------------------
(* session.Manager: Save writes the .jsonl file, load reads it back *)

MaxMessages == 2

\* the scanner's buffer in load: a line of this many bytes or more is too long
ScanLimit == 1048576

\* bytes of a message line around its content: {"role":"user","content":"",
\* "timestamp":"2026-01-02T15:04:05Z"}
EnvelopeLen == 70

\* the clock at the load
LoadTime == [sec |-> 900, nsec |-> 250]
ZeroTime == [sec |-> 0, nsec |-> 0]

\* a stored message: Role, len(Content) and Timestamp
Stored(role, content, ts) == [role |-> role, content |-> content, timestamp |-> ts]
StoredMessages ==
    {Stored(role, content, ts) : role \in {"user", "assistant"},
                                 content \in {5, ScanLimit}, ts \in {"", "t1"}}

\* CreatedAt of a session: read from a file (whole seconds) or time.Now()
CreatedAts == {[sec |-> 100, nsec |-> 0], [sec |-> 100, nsec |-> 500]}

\* Time.Format(time.RFC3339): seconds, no fraction
formatRFC3339(t) == t.sec

\* time.Parse(time.RFC3339, ts)
parseRFC3339(ts) == [sec |-> ts, nsec |-> 0]

\* json.Marshal of a Message, as a line of the file
messageLine(msg) ==
    [type |-> "message", msg |-> msg, bytes |-> msg.content + EnvelopeLen]

\* the metadata line
metaLine(sess) ==
    [type |-> "metadata", created_at |-> formatRFC3339(sess.createdAt), bytes |-> 90]

\* the lines Save writes
fileOf(sess) ==
    <<metaLine(sess)>> \o [j \in 1..Len(sess.messages) |-> messageLine(sess.messages[j])]

\* the lines scanner.Scan() yields: it stops at the first line that does not
\* fit its buffer
RECURSIVE scanned(_)
scanned(lines) ==
    IF lines = <<>> \/ Head(lines).bytes >= ScanLimit THEN <<>>
    ELSE <<Head(lines)>> \o scanned(Tail(lines))

\* load: the messages of the message lines, the created_at of the metadata
\* line, the present time if there is none
loadOf(lines, clock) ==
    LET got == scanned(lines)
        metas == SelectSeq(got, LAMBDA l : l.type = "metadata")
        msgs == SelectSeq(got, LAMBDA l : l.type = "message")
        createdAt == IF metas = <<>> THEN ZeroTime
                     ELSE parseRFC3339(metas[Len(metas)].created_at)
    IN  [messages |-> [j \in 1..Len(msgs) |-> msgs[j].msg],
         createdAt |-> IF createdAt = ZeroTime THEN clock ELSE createdAt]

InitPersist ==
    /\ LoopIdle /\ SideIdle
    /\ SubIdle /\ CronIdle /\ ExprIdle /\ EntryIdle /\ ConfigIdle /\ PathIdle /\ FieldIdle /\ ChatIdle /\ KeyIdle
    /\ pSess \in [messages : {<<>>}, createdAt : CreatedAts]
    /\ pFile = <<>>
    /\ pLoaded = NoSession
    /\ pPc = "new"

nonPersistVars ==
    <<loopVars, compVars, busVars, dispVars, cfgVars, subVars, cronVars, exprVars,
      entryVars, configVars, pathVars, fieldVars, chatVars, keyVars>>

\* Session.AddMessage
SessionAdd(msg) ==
    /\ pPc \in {"new", "saved"}
    /\ Len(pSess.messages) < MaxMessages
    /\ pSess' = [pSess EXCEPT !.messages = Append(@, msg)]
    /\ pPc' = "new"
    /\ UNCHANGED <<pFile, pLoaded, nonPersistVars>>

\* Manager.Save
SessionSave ==
    /\ pPc = "new"
    /\ pFile' = fileOf(pSess)
    /\ pPc' = "saved"
    /\ UNCHANGED <<pSess, pLoaded, nonPersistVars>>

\* GetOrCreate of a manager with an empty cache: load
SessionLoad ==
    /\ pPc = "saved"
    /\ pLoaded' = loadOf(pFile, LoadTime)
    /\ pPc' = "loaded"
    /\ UNCHANGED <<pSess, pFile, nonPersistVars>>

NextPersist ==
    \/ \E msg \in StoredMessages : SessionAdd(msg)
    \/ SessionSave
    \/ SessionLoad

SpecPersist == InitPersist /\ [][NextPersist]_vars

----------------------------------------------------------------------------
(* config: SaveTo rewrites every key of the marshalled Config with
   snakeToCamel, LoadFrom passes the keys through convertKeys *)

MaxKeys == 2

\* strings.ToUpper of one letter
ToUpper(c) ==
    CASE c = "a" -> "A" [] c = "b" -> "B" [] c = "k" -> "K" [] OTHER -> c

\* strings.Split(s, "_"): the parts between the underscores
RECURSIVE splitUnderscore(_, _)
splitUnderscore(s, part) ==
    IF s = <<>> THEN <<part>>
    ELSE IF Head(s) = "_" THEN <<part>> \o splitUnderscore(Tail(s), <<>>)
    ELSE splitUnderscore(Tail(s), Append(part, Head(s)))

RECURSIVE joinParts(_)
joinParts(parts) ==
    IF parts = <<>> THEN <<>> ELSE Head(parts) \o joinParts(Tail(parts))

\* snakeToCamel: every part after the first gets its first letter in upper
\* case, and the parts are joined without the underscores
snakeToCamel(s) ==
    LET parts == splitUnderscore(s, <<>>)
        upper(i) == IF i > 1 /\ parts[i] # <<>>
                    THEN <<ToUpper(parts[i][1])>> \o Tail(parts[i])
                    ELSE parts[i]
    IN  joinParts([i \in 1..Len(parts) |-> upper(i)])

\* the keys of a user's map: environment variable names and others
EnvKeys ==
    { <<"A", "_", "K">>, <<"a", "_", "b">>, <<"a", "B">>, <<"k">>, <<"_", "k">> }
EnvValues == {"v1", "v2"}
EnvMaps ==
    UNION {[ks -> EnvValues] : ks \in {k \in SUBSET EnvKeys : Cardinality(k) <= MaxKeys}}

\* convertToCamel on a map: result[snakeToCamel(k)] = val for every k, in the
\* order of Go's map iteration; of two keys with the same image either wins
convertToCamel(m) ==
    LET ks == {snakeToCamel(k) : k \in DOMAIN m} IN
    {f \in [ks -> EnvValues] :
        \A c \in ks : \E k \in DOMAIN m : snakeToCamel(k) = c /\ m[k] = f[c]}

\* convertKeys: every key as it is
convertKeys(m) == m

InitConfig ==
    /\ LoopIdle /\ SideIdle
    /\ SubIdle /\ CronIdle /\ ExprIdle /\ EntryIdle /\ PersistIdle /\ PathIdle /\ FieldIdle /\ ChatIdle /\ KeyIdle
    /\ gEnv \in EnvMaps
    /\ gFile = <<>>
    /\ gLoaded = <<>>
    /\ gPc = "new"

nonConfigVars ==
    <<loopVars, compVars, busVars, dispVars, cfgVars, subVars, cronVars, exprVars,
      entryVars, persistVars, pathVars, fieldVars, chatVars, keyVars>>

\* SaveTo
ConfigSaveTo ==
    /\ gPc = "new"
    /\ gFile' \in convertToCamel(gEnv)
    /\ gPc' = "saved"
    /\ UNCHANGED <<gEnv, gLoaded, nonConfigVars>>

\* LoadFrom
ConfigLoadFrom ==
    /\ gPc = "saved"
    /\ gLoaded' = convertKeys(gFile)
    /\ gPc' = "loaded"
    /\ UNCHANGED <<gEnv, gFile, nonConfigVars>>

NextConfig ==
    \/ ConfigSaveTo
    \/ ConfigLoadFrom

SpecConfig == InitConfig /\ [][NextConfig]_vars

----------------------------------------------------------------------------
(* resolvePath of the file tools: filepath.Abs, then the test against the *)
(* allowed directory                                                      *)

MaxDepth == 3

\* names of path elements, as their characters; ".." is the parent
Ws == <<"w", "s">>
WsOld == <<"w", "s", "-", "o", "l", "d">>
Sub == <<"a">>
Up == <<".", ".">>
Names == {Ws, WsOld, Sub, Up}

\* absolute paths, as the elements after the root
PathsTo(n) == UNION {[1..k -> Names] : k \in 0..n}
AllowedDirs == {<<Ws>>, <<Ws, Sub>>}

\* filepath.Abs of an absolute path: Clean, which resolves ".." lexically
RECURSIVE cleanInto(_, _)
cleanInto(done, rest) ==
    IF rest = <<>> THEN done
    ELSE IF Head(rest) = Up
         THEN cleanInto(IF done = <<>> THEN <<>> ELSE SubSeq(done, 1, Len(done) - 1),
                        Tail(rest))
         ELSE cleanInto(Append(done, Head(rest)), Tail(rest))
Abs(path) == cleanInto(<<>>, path)

\* the path as a string: "/" and the element, for each element
RECURSIVE pathString(_)
pathString(path) ==
    IF path = <<>> THEN <<>> ELSE <<"/">> \o Head(path) \o pathString(Tail(path))

\* strings.HasPrefix
HasPrefix(str, prefix) ==
    Len(str) >= Len(prefix) /\ SubSeq(str, 1, Len(prefix)) = prefix

\* the directory itself or a location beneath it
Beneath(path, dir) ==
    Len(path) >= Len(dir) /\ SubSeq(path, 1, Len(dir)) = dir

\* resolvePath with an allowed directory
resolvePath(path, allowedDir) ==
    LET resolved == Abs(path) IN
    IF HasPrefix(pathString(resolved), pathString(Abs(allowedDir)))
    THEN [ok |-> TRUE, resolved |-> resolved]
    ELSE [ok |-> FALSE, resolved |-> <<>>]

InitPath ==
    /\ LoopIdle /\ SideIdle
    /\ SubIdle /\ CronIdle /\ ExprIdle /\ EntryIdle /\ PersistIdle /\ ConfigIdle /\ FieldIdle /\ ChatIdle /\ KeyIdle
    /\ rIn \in [path : PathsTo(MaxDepth), allowedDir : AllowedDirs]
    /\ rOut = [ok |-> FALSE, resolved |-> <<>>]
    /\ rPc = "call"

\* read_file, write_file, edit_file or list_dir calls resolvePath
ResolveCall ==
    /\ rPc = "call"
    /\ rOut' = resolvePath(rIn.path, rIn.allowedDir)
    /\ rPc' = "done"
    /\ UNCHANGED <<rIn, loopVars, compVars, busVars, dispVars, cfgVars, subVars,
                   cronVars, exprVars, entryVars, persistVars, configVars,
                   fieldVars, chatVars, keyVars>>

NextPath == ResolveCall

SpecPath == InitPath /\ [][NextPath]_vars

----------------------------------------------------------------------------
(* parseCronField: one field of a cron expression, from its characters *)

MaxParts == 2

\* the parts a field is made of, as their characters, each with what it
\* denotes: its form, its numbers, and whether it is well formed
Part(text, form, a, b, n) == [text |-> text, form |-> form, a |-> a, b |-> b, n |-> n]
FieldParts ==
    { Part(<<"*">>, "all", 0, 0, 1),
      Part(<<"5">>, "value", 5, 5, 1),
      Part(<<"0">>, "value", 0, 0, 1),
      Part(<<"9", "9">>, "value", 99, 99, 1),
      Part(<<"*", "/", "1", "5">>, "all", 0, 0, 15),
      Part(<<"*", "/", "0">>, "all", 0, 0, 0),
      Part(<<"1", "-", "5">>, "range", 1, 5, 1),
      Part(<<"1", "-", "1", "0", "/", "3">>, "range", 1, 10, 3),
      Part(<<"1", "-", "5", "/", "0">>, "range", 1, 5, 0),
      Part(<<"7", "0", "-", "7", "5">>, "range", 70, 75, 1),
      Part(<<"7", "0", "-", "5">>, "range", 70, 5, 1),
      Part(<<"-", "1">>, "malformed", 0, 0, 1),
      Part(<<"a", "b", "c">>, "malformed", 0, 0, 1),
      Part(<<"1", "-">>, "malformed", 0, 0, 1),
      Part(<<>>, "malformed", 0, 0, 1) }
Fields == UNION {[1..k -> FieldParts] : k \in 1..MaxParts}

\* the ranges of the five fields that differ in their minimum
FieldRanges == {<<0, 59>>, <<1, 12>>}

DigitValue ==
    [c \in {"0", "1", "2", "3", "4", "5", "6", "7", "8", "9"} |->
        CASE c = "0" -> 0 [] c = "1" -> 1 [] c = "2" -> 2 [] c = "3" -> 3
          [] c = "4" -> 4 [] c = "5" -> 5 [] c = "6" -> 6 [] c = "7" -> 7
          [] c = "8" -> 8 [] OTHER -> 9]

RECURSIVE digitsValue(_, _)
digitsValue(s, acc) ==
    IF s = <<>> THEN acc ELSE digitsValue(Tail(s), 10 * acc + DigitValue[Head(s)])

\* strconv.Atoi: an optional sign and at least one digit, nothing else
Atoi(s) ==
    LET signed == s # <<>> /\ Head(s) \in {"+", "-"}
        digits == IF signed THEN Tail(s) ELSE s
    IN  IF digits # <<>> /\ \A k \in 1..Len(digits) : digits[k] \in DOMAIN DigitValue
        THEN [ok |-> TRUE,
              val |-> IF signed /\ Head(s) = "-" THEN 0 - digitsValue(digits, 0)
                      ELSE digitsValue(digits, 0)]
        ELSE [ok |-> FALSE, val |-> 0]

\* strings.SplitN(s, sep, 2) for a one-character sep
SplitN2(s, sep) ==
    LET k == Index(s, sep) IN
    IF k < 0 THEN <<s>> ELSE <<SubSeq(s, 1, k), SubSeq(s, k + 2, Len(s))>>

\* for i := lo; i <= hi; i += step
Stepped(lo, hi, step) == {i \in lo..hi : (i - lo) % step = 0}

NilSet == [nil |-> TRUE, set |-> {}]

\* one part of the field: nil, or the values it adds
parsePart(part, min, max) ==
    IF HasPrefix(part, <<"*", "/">>)
    THEN LET step == Atoi(SubSeq(part, 3, Len(part))) IN
         IF ~step.ok \/ step.val <= 0 THEN NilSet
         ELSE [nil |-> FALSE, set |-> Stepped(min, max, step.val)]
    ELSE IF part = <<"*">>
    THEN [nil |-> FALSE, set |-> min..max]
    ELSE IF Index(part, "-") >= 0
    THEN LET rangeParts == SplitN2(part, "/")
             bounds == SplitN2(rangeParts[1], "-")
             lo == Atoi(bounds[1])
             hi == Atoi(bounds[2])
             s == IF Len(rangeParts) = 2 THEN Atoi(rangeParts[2])
                  ELSE [ok |-> TRUE, val |-> 1]
         IN  IF ~lo.ok \/ ~hi.ok \/ lo.val < min \/ hi.val > max THEN NilSet
             ELSE IF ~s.ok \/ s.val <= 0 THEN NilSet
             ELSE [nil |-> FALSE, set |-> Stepped(lo.val, hi.val, s.val)]
    ELSE LET val == Atoi(part) IN
         IF ~val.ok \/ val.val < min \/ val.val > max THEN NilSet
         ELSE [nil |-> FALSE, set |-> {val.val}]

\* parseCronField: nil at the first part that is refused, else the union
parseCronField(field, min, max) ==
    IF \E k \in 1..Len(field) : parsePart(field[k].text, min, max).nil
    THEN NilSet
    ELSE [nil |-> FALSE,
          set |-> UNION {parsePart(field[k].text, min, max).set : k \in 1..Len(field)}]

InitField ==
    /\ LoopIdle /\ SideIdle
    /\ SubIdle /\ CronIdle /\ ExprIdle /\ EntryIdle /\ PersistIdle /\ ConfigIdle
    /\ PathIdle /\ ChatIdle /\ KeyIdle
    /\ fIn \in {[field |-> f, min |-> r[1], max |-> r[2]] :
                   f \in Fields, r \in FieldRanges}
    /\ fOut = NilSet
    /\ fPc = "call"

\* computeNextRun and AddJob parse a field
FieldParse ==
    /\ fPc = "call"
    /\ fOut' = parseCronField(fIn.field, fIn.min, fIn.max)
    /\ fPc' = "done"
    /\ UNCHANGED <<fIn, loopVars, compVars, busVars, dispVars, cfgVars, subVars,
                   cronVars, exprVars, entryVars, persistVars, configVars, pathVars,
                   chatVars, keyVars>>

NextField == FieldParse

SpecField == InitField /\ [][NextField]_vars

----------------------------------------------------------------------------
(* The interactive chat: chatModel.Update for Enter, Esc and llmResponseMsg, *)
(* and the turn it starts with sendMessageWithCtx                            *)

\* what is typed when Enter is pressed, after TrimSpace
Inputs == {"", "hi", "/new", "exit"}

Entry(role, content, cancelled) ==
    [role |-> role, content |-> content, cancelled |-> cancelled]

\* faulty variant: Enter starts a turn whether or not one is awaited
entersTurnAlways(waiting, input) == input # ""

\* case tea.KeyEnter: a turn is started unless one is awaited, the input is
\* empty or it is an exit command
entersTurn(waiting, input) == ~waiting /\ input # "" /\ input # "exit"

\* what ProcessDirect can return for a turn: a reply; an error that is not a
\* cancellation; and, once the turn's context is cancelled, an error wrapping
\* context.Canceled (ctx.Err() from chatWithRetry's wait, or the provider's
\* wrapped request error)
TurnResults(turn) ==
    {"reply", "failed"} \cup (IF turn.cancelled THEN {"canceled"} ELSE {})

\* case llmResponseMsg: the entry appended for a result
entryFor(result, cancelled) ==
    CASE result = "canceled" -> Entry("assistant", "[Interrupted]", cancelled)
      [] result = "failed" -> Entry("error", "err", cancelled)
      [] OTHER -> Entry("assistant", "reply", cancelled)

InitChat ==
    /\ LoopIdle /\ SideIdle
    /\ SubIdle /\ CronIdle /\ ExprIdle /\ EntryIdle /\ PersistIdle /\ ConfigIdle
    /\ PathIdle /\ FieldIdle /\ KeyIdle
    /\ uPc = "run"
    /\ uWaiting = FALSE
    /\ uCancel = FALSE
    /\ uHistory = <<>>
    /\ uTurns = <<>>

nonChatVars ==
    <<loopVars, compVars, busVars, dispVars, cfgVars, subVars, cronVars, exprVars,
      entryVars, persistVars, configVars, pathVars, fieldVars, keyVars>>

\* Update for tea.KeyEnter
KeyEnter(input) ==
    /\ uPc = "run"
    /\ Len(uHistory) < 2 * MaxTurns
    /\ IF entersTurn(uWaiting, input)
       THEN /\ uHistory' = Append(uHistory, Entry("user", input, FALSE))
            /\ uWaiting' = TRUE
            /\ uCancel' = TRUE
            /\ uTurns' = Append(uTurns, [cancelled |-> FALSE, result |-> "running"])
            /\ UNCHANGED uPc
       ELSE /\ uPc' = IF ~uWaiting /\ input = "exit" THEN "quit" ELSE "run"
            /\ UNCHANGED <<uHistory, uWaiting, uCancel, uTurns>>
    /\ UNCHANGED nonChatVars

\* Update for tea.KeyEsc: the context of the turn started last is cancelled
KeyEsc ==
    /\ uPc = "run"
    /\ IF uWaiting /\ uCancel
       THEN /\ uTurns' = [uTurns EXCEPT ![Len(uTurns)].cancelled = TRUE]
            /\ uCancel' = FALSE
       ELSE UNCHANGED <<uTurns, uCancel>>
    /\ UNCHANGED <<uPc, uWaiting, uHistory, nonChatVars>>

\* the command's ProcessDirect returns
ProcessDirectReturns(k, result) ==
    /\ k \in 1..Len(uTurns)
    /\ uTurns[k].result = "running"
    /\ result \in TurnResults(uTurns[k])
    /\ uTurns' = [uTurns EXCEPT ![k].result = result]
    /\ UNCHANGED <<uPc, uWaiting, uCancel, uHistory, nonChatVars>>

\* Update for the llmResponseMsg of a command
ResponseMsg(k) ==
    /\ uPc = "run"
    /\ k \in 1..Len(uTurns)
    /\ uTurns[k].result # "running"
    /\ uWaiting' = FALSE
    /\ uCancel' = FALSE
    /\ uHistory' = Append(uHistory, entryFor(uTurns[k].result, uTurns[k].cancelled))
    /\ uTurns' = SubSeq(uTurns, 1, k - 1) \o SubSeq(uTurns, k + 1, Len(uTurns))
    /\ UNCHANGED <<uPc, nonChatVars>>

NextChat ==
    \/ \E input \in Inputs : KeyEnter(input)
    \/ KeyEsc
    \/ \E k \in 1..2, result \in {"reply", "failed", "canceled"} :
          ProcessDirectReturns(k, result)
    \/ \E k \in 1..2 : ResponseMsg(k)

SpecChat == InitChat /\ [][NextChat]_vars

----------------------------------------------------------------------------
(* processMessage's consolidation before the turn, over windows on both    *)
(* sides of the clamp of keepCount and over transcripts of every length    *)

\* the longest stored transcript
MaxStored == 24

\* LoopConfig.MemoryWindow: below the clamp, within it and above it
Windows == {0, 1, 3, 4, 5, 20, 22}

\* a stored transcript of n messages, each of its own size
RECURSIVE Numbered(_)
Numbered(n) ==
    IF n = 0 THEN <<>>
    ELSE Append(Numbered(n - 1),
                Msg(IF n % 2 = 1 THEN "user" ELSE "assistant", "stored", <<>>, 0,
                    40 + n))

InitCons ==
    /\ inbound = <<InMsg("chat", 40, 1)>>
    /\ outbound = <<>>
    /\ ctxDone = FALSE
    /\ pc = "idle"
    /\ cur = NoMsg
    /\ resp = NoOut
    /\ nTaken = 0
    /\ TurnIdle
    /\ session \in {Numbered(n) : n \in 0..MaxStored}
    /\ memory = ""
    /\ history = <<>>
    /\ cons = ConsNone
    /\ consFailed = FALSE
    /\ memoryWindow \in Windows
    /\ SideIdle
    /\ BackgroundIdle

NextCons ==
    \/ RunTake
    \/ \E out \in ConsOutcomes : BeginTurn(out)

SpecCons == InitCons /\ [][NextCons]_vars

----------------------------------------------------------------------------
(* handleCompact on a stored session whose messages carry their timestamps *)

\* the longest transcript /compact is given
MaxCompact == 7

\* Timestamp of the stored messages, and time.Now().Format(time.RFC3339) at
\* the /compact: the same second or a later one
StoredAt == "t1"
CompactClocks == {"t1", "t2"}

\* the transcripts of n messages, user and assistant alternating, short and
\* long contents
RECURSIVE StoredTranscripts(_)
StoredTranscripts(n) ==
    IF n = 0 THEN {<<>>}
    ELSE {Append(t, Stored(IF n % 2 = 1 THEN "user" ELSE "assistant", c, StoredAt)) :
              t \in StoredTranscripts(n - 1), c \in {40, 300}}

\* Session.GetHistory(len(sess.Messages)): role and content of every message
historyOf(stored) ==
    [j \in 1..Len(stored) |-> Msg(stored[j].role, "history", <<>>, 0, stored[j].content)]

\* the messages handleCompact hands to compressMessages
compactInput(stored) == <<Msg("system", "system", <<>>, 0, 400)>> \o historyOf(stored)

\* sess.Messages = nil, then sess.AddMessage(role, content) for compressed[1:]
readded(compressed, clock) ==
    [j \in 1..(Len(compressed) - 1) |->
        Stored(compressed[j + 1].role, compressed[j + 1].bytes, clock)]

InitCompact ==
    /\ LoopIdle /\ SideIdle
    /\ SubIdle /\ CronIdle /\ ExprIdle /\ EntryIdle /\ ConfigIdle /\ PathIdle /\ FieldIdle /\ ChatIdle /\ KeyIdle
    /\ \E n \in 0..MaxCompact, t \in StoredTranscripts(MaxCompact) :
          pSess = [messages |-> SubSeq(t, 1, n), createdAt |-> [sec |-> 100, nsec |-> 0]]
    /\ pFile = fileOf(pSess)
    /\ pLoaded = NoSession
    /\ pPc = "stored"

\* handleCompact, start to return
CompactStored(ok, sumBytes, clock) ==
    /\ pPc = "stored"
    /\ LET msgs == compactInput(pSess.messages)
           compressed == compressMessages(msgs, ok, sumBytes)
       IN
       IF Len(pSess.messages) < 5
       THEN UNCHANGED <<pSess, pFile>>
       ELSE IF estimateTokens(compressed) >= estimateTokens(msgs)
       THEN UNCHANGED <<pSess, pFile>>
       ELSE /\ pSess' = [pSess EXCEPT !.messages = readded(compressed, clock)]
            /\ pFile' = fileOf(pSess')
    /\ pPc' = "compacted"
    /\ UNCHANGED <<pLoaded, nonPersistVars>>

\* GetOrCreate of a manager started afterwards: load
CompactLoad ==
    /\ pPc = "compacted"
    /\ pLoaded' = loadOf(pFile, LoadTime)
    /\ pPc' = "loaded"
    /\ UNCHANGED <<pSess, pFile, nonPersistVars>>

NextCompact ==
    \/ \E ok \in BOOLEAN, sumBytes \in SummaryBytes, clock \in CompactClocks :
          CompactStored(ok, sumBytes, clock)
    \/ CompactLoad

SpecCompact == InitCompact /\ [][NextCompact]_vars

----------------------------------------------------------------------------
(* processMessage's dispatch on msg.Channel and msg.Content, and the turn  *)
(* or the command that follows                                             *)

\* strings.ToLower of one character
ToLower(c) ==
    CASE c = "N" -> "n" [] c = "E" -> "e" [] c = "W" -> "w" [] c = "H" -> "h"
      [] c = "L" -> "l" [] c = "P" -> "p" [] OTHER -> c

lowered(t) == [j \in 1..Len(t) |-> ToLower(t[j])]

\* strings.TrimSpace: the white space at both ends goes
RECURSIVE trimLeft(_)
trimLeft(t) == IF t # <<>> /\ Head(t) = " " THEN trimLeft(Tail(t)) ELSE t
RECURSIVE trimRight(_)
trimRight(t) ==
    IF t # <<>> /\ t[Len(t)] = " " THEN trimRight(SubSeq(t, 1, Len(t) - 1)) ELSE t
TrimSpace(t) == trimRight(trimLeft(t))

\* faulty variant: the content as it came
cmdNameAsGiven(content) == content

\* cmdName of processMessage
cmdNameOf(content) == TrimSpace(lowered(content))

\* l.slashIndex: the names RegisterSlashCommand was called with, each with the
\* kind of message its handler serves
slashIndex ==
    [n \in {<<"n", "e", "w">>, <<"c", "o", "m", "p", "a", "c", "t">>, <<"c", "o", "n", "t", "e", "x", "t">>, <<"h", "e", "l", "p">>} |->
        CASE n = <<"n", "e", "w">> -> "/new" [] n = <<"c", "o", "m", "p", "a", "c", "t">> -> "/compact"
          [] n = <<"c", "o", "n", "t", "e", "x", "t">> -> "/context" [] OTHER -> "/help"]

\* what processMessage does with a message: the announcement branch, a slash
\* handler, or the turn
routeOf(channel, content) ==
    LET cmdName == cmdNameOf(content) IN
    IF channel = "system" THEN "system"
    ELSE IF cmdName # <<>> /\ Head(cmdName) = "/" /\ Tail(cmdName) \in DOMAIN slashIndex
    THEN slashIndex[Tail(cmdName)]
    ELSE "chat"

\* an inbound message with its channel and content; kind is the branch
\* processMessage takes for it, bytes the size of the message built from it
InText(channel, content, seq) ==
    LET kind == routeOf(channel, content) IN
    [kind |-> kind,
     bytes |-> CASE kind = "chat" -> 40 [] kind = "system" -> 200 [] OTHER -> 0,
     seq |-> seq, channel |-> channel, content |-> content]

\* msg.Content of the messages a user sends
UserTexts ==
    {<<"/", "n", "e", "w">>, <<" ", "/", "N", "e", "w", " ">>, <<"/", "c", "o", "m", "p", "a", "c", "t">>, <<"/", "c", "o", "n", "t", "e", "x", "t">>, <<"/", "H", "E", "L", "P">>,
     <<"/", "x">>, <<"/", "n", "e", "w", " ", "x">>}

InitSlash ==
    /\ inbound \in {<<InText("cli", t, 1)>> : t \in UserTexts}
                    \cup {<<InText("system", <<"h", "i">>, 1)>>}
    /\ outbound = <<>>
    /\ ctxDone = FALSE
    /\ pc = "idle"
    /\ cur = NoMsg
    /\ resp = NoOut
    /\ nTaken = 0
    /\ TurnIdle
    /\ session \in StoredSessions
    /\ memory = ""
    /\ history = <<>>
    /\ cons = ConsNone
    /\ consFailed = FALSE
    /\ memoryWindow = MemoryWindow
    /\ SideIdle
    /\ BackgroundIdle

SpecSlash == InitSlash /\ [][Next]_vars

----------------------------------------------------------------------------
(* Run's turns for chat messages and for announcements, and the chat the   *)
(* message tool sends to                                                   *)

SystemChannel == <<"s", "y", "s", "t", "e", "m">>

\* the inbound messages of Run: of two chats, and the announcements of the
\* subagents spawned from these chats
AnnouncementFor(origin) == Chat(SystemChannel, announceChatID(origin))
OriginMsgs == {BusChats[1], BusChats[2]}
                  \cup {AnnouncementFor(BusChats[1]), AnnouncementFor(BusChats[2])}

\* an announcement names a chat a spawn tool was bound to, so a message of
\* that chat came before it
Announced(q) ==
    \A i \in 1..Len(q) :
        q[i].channel = SystemChannel =>
            \E j \in 1..(i - 1) : AnnouncementFor(q[j]) = q[i]

\* the "channel" and "chat_id" params of a message-tool call: none, or a chat
MessageTargets == {NoContext, Chat(<<"d">>, <<"9">>)}

\* MessageTool.Execute's channel and chatID: the defaults replace empty params
messageTarget(ctx, params) ==
    [channel |-> IF params.channel = <<>> THEN ctx.channel ELSE params.channel,
     chatID |-> IF params.chatID = <<>> THEN ctx.chatID ELSE params.chatID]

InitOrigin ==
    /\ LoopQuiet
    /\ inbound \in {q \in UNION {[1..n -> OriginMsgs] : n \in 0..MaxReads} : Announced(q)}
    /\ outbound = <<>>
    /\ SideIdle
    /\ SubIdle /\ CronIdle /\ ExprIdle /\ PersistIdle /\ ConfigIdle /\ PathIdle /\ FieldIdle /\ ChatIdle /\ KeyIdle
    /\ EntryIdle

nonOriginVars ==
    <<runVars, turnVars, memVars, compVars, busVars, dispVars, cfgVars,
      cronVars, exprVars, persistVars, configVars, pathVars, fieldVars, chatVars, keyVars>>

\* Run's select takes the next message and calls processMessage
OriginTake ==
    /\ ePc["run"] = "idle"
    /\ inbound # <<>>
    /\ inbound' = Tail(inbound)
    /\ ePc' = [ePc EXCEPT !["run"] = "taken"]
    /\ eMsg' = [eMsg EXCEPT !["run"] = Head(inbound)]
    /\ UNCHANGED <<outbound, eDirty, eCalls, subVars, nonOriginVars>>

\* processMessage up to its loop: the branch for channel "system" goes into
\* ProcessSystemMessage at once, any other message reaches the SetContext
\* calls
ProcessStarts ==
    /\ ePc["run"] = "taken"
    /\ toolCtx' = IF eMsg["run"].channel = SystemChannel THEN toolCtx
                  ELSE boundContext(toolCtx, eMsg["run"])
    /\ ePc' = [ePc EXCEPT !["run"] = "bound"]
    /\ UNCHANGED <<inbound, outbound, eMsg, eDirty, eCalls, tasks, sub, crashed,
                   spawnCalls, nonOriginVars>>

\* the turn's model calls the message tool: Execute publishes to the params'
\* chat or to the tool's, and answers with an error when there is neither
MessageToolExecute(params) ==
    /\ ePc["run"] = "bound"
    /\ Len(eCalls) < MaxReads
    /\ LET m == eMsg["run"]
           to == messageTarget(toolCtx, params)
       IN /\ eCalls' = Append(eCalls,
                 [by |-> "run",
                  bound |-> IF m.channel = SystemChannel THEN parseOrigin(m.chatID) ELSE m,
                  read |-> toolCtx, dirty |-> FALSE])
          /\ IF to.channel = <<>> \/ to.chatID = <<>>
             THEN UNCHANGED outbound
             ELSE /\ CanSend(outbound, OutboundCap)
                  /\ outbound' = Append(outbound,
                         [OutTo(to, "tool", m) EXCEPT !.kind =
                             IF params = NoContext THEN "toolmsg" ELSE "toolmsgto"])
    /\ UNCHANGED <<inbound, ePc, eMsg, eDirty, subVars, nonOriginVars>>

\* processMessage returns and Run publishes the answer: to the message's chat,
\* or to the chat parsed from the announcement's chat id
OriginReturns ==
    /\ ePc["run"] = "bound"
    /\ LET m == eMsg["run"]
           to == IF m.channel = SystemChannel THEN parseOrigin(m.chatID) ELSE m
       IN /\ CanSend(outbound, OutboundCap)
          /\ outbound' = Append(outbound, OutTo(to, "run", m))
    /\ ePc' = [ePc EXCEPT !["run"] = "idle"]
    /\ UNCHANGED <<inbound, eMsg, eDirty, eCalls, subVars, nonOriginVars>>

NextOrigin ==
    \/ OriginTake
    \/ ProcessStarts
    \/ \E params \in MessageTargets : MessageToolExecute(params)
    \/ OriginReturns

SpecOrigin == InitOrigin /\ [][NextOrigin]_vars

----------------------------------------------------------------------------
(* The two run modes and the outbound channel: cmdGateway starts Run and   *)
(* DispatchOutbound, cmdAgent drives the Loop through ProcessDirect and    *)
(* starts neither                                                          *)

\* what a turn of entry point e publishes, through the message tool or as
\* Run's reply: a message to the chat of the turn
Published(e) == OutTo(IF e = "run" THEN BusChats[1] ELSE DirectChat, e, NoMsg)

InitModes ==
    /\ LoopQuiet
    /\ inbound = <<>> /\ outbound = <<>>
    /\ CompressIdle /\ BusIdle
    /\ dPc \in {"off", "idle"}
    /\ dMsg = NoOut /\ hIdx = 0 /\ stage = 0 /\ log = <<>>
    /\ subscribers = [c \in Channels |-> <<>>]
    /\ handlers = <<>> /\ primary = <<>>
    /\ SubIdle /\ CronIdle /\ ExprIdle /\ PersistIdle /\ ConfigIdle /\ PathIdle /\ FieldIdle /\ ChatIdle /\ KeyIdle
    /\ EntryIdle

nonModeVars ==
    <<runVars, turnVars, memVars, compVars, busVars, cfgVars, subVars,
      cronVars, exprVars, persistVars, configVars, pathVars, fieldVars, chatVars,
      keyVars, dMsg, hIdx, stage, log, subscribers, handlers, primary, eMsg, eDirty, eCalls>>

\* the gateway: a channel publishes an inbound message
GatewayInbound ==
    /\ dPc # "off"
    /\ PublishInbound(BusChats[1])
    /\ UNCHANGED <<outbound, dPc, ePc, nonModeVars>>

\* the gateway: Run's select takes a message and calls processMessage
GatewayTake ==
    /\ dPc # "off"
    /\ ePc["run"] = "idle"
    /\ inbound # <<>>
    /\ inbound' = Tail(inbound)
    /\ ePc' = [ePc EXCEPT !["run"] = "bound"]
    /\ UNCHANGED <<outbound, dPc, nonModeVars>>

\* the agent mode: RunChat or RunSingleMessage calls ProcessDirect
AgentDirect ==
    /\ dPc = "off"
    /\ ePc["direct"] = "idle"
    /\ ePc' = [ePc EXCEPT !["direct"] = "bound"]
    /\ UNCHANGED <<inbound, outbound, dPc, nonModeVars>>

\* MessageTool.Execute reaches t.sendFunc, which is bus.PublishOutbound
SendStarts(e) ==
    /\ ePc[e] = "bound"
    /\ ePc' = [ePc EXCEPT ![e] = "sending"]
    /\ UNCHANGED <<inbound, outbound, dPc, nonModeVars>>

\* b.Outbound <- msg of the message tool goes through
SendCompletes(e) ==
    /\ ePc[e] = "sending"
    /\ CanSend(outbound, OutboundCap)
    /\ outbound' = Append(outbound, Published(e))
    /\ ePc' = [ePc EXCEPT ![e] = "bound"]
    /\ UNCHANGED <<inbound, dPc, nonModeVars>>

\* processMessage returns: ProcessDirect hands the text to its caller, Run
\* goes on to PublishOutbound
ProcessReturns(e) ==
    /\ ePc[e] = "bound"
    /\ ePc' = [ePc EXCEPT ![e] = IF e = "run" THEN "reply" ELSE "idle"]
    /\ UNCHANGED <<inbound, outbound, dPc, nonModeVars>>

\* b.Outbound <- msg of Run goes through
ReplyCompletes ==
    /\ ePc["run"] = "reply"
    /\ CanSend(outbound, OutboundCap)
    /\ outbound' = Append(outbound, Published("run"))
    /\ ePc' = [ePc EXCEPT !["run"] = "idle"]
    /\ UNCHANGED <<inbound, dPc, nonModeVars>>

\* DispatchOutbound receives a message and its handlers return
DispatcherReceives ==
    /\ dPc = "idle"
    /\ outbound # <<>>
    /\ outbound' = Tail(outbound)
    /\ UNCHANGED <<inbound, dPc, ePc, nonModeVars>>

NextModes ==
    \/ GatewayInbound
    \/ GatewayTake
    \/ AgentDirect
    \/ \E e \in EntryPoints : SendStarts(e)
    \/ \E e \in EntryPoints : SendCompletes(e)
    \/ \E e \in EntryPoints : ProcessReturns(e)
    \/ ReplyCompletes
    \/ DispatcherReceives

SpecModes == InitModes /\ [][NextModes]_vars

----------------------------------------------------------------------------
(* session.Manager over several session keys: GetOrCreate, Save and the    *)
(* file a key is kept in                                                   *)

\* messages kept per session in the model
MaxKept == 2

\* InboundMessage.SessionKey: channel + ":" + chatID
SessionKey(channel, chatID) == channel \o <<":">> \o chatID

\* the keys of the chats in the model
SessionKeys ==
    { SessionKey(<<"d">>, <<"1">>), SessionKey(<<"d">>, <<"1", "_", "2">>),
      SessionKey(<<"d", "_", "1">>, <<"2">>), SessionKey(<<"d">>, <<"1", "/", "2">>) }

\* strings.ReplaceAll(name, c, "_") for every c of the set
replaceAll(name, chars) ==
    [j \in 1..Len(name) |-> IF name[j] \in chars THEN "_" ELSE name[j]]

\* safeFilename: the characters of `<>:"/\|?*` become "_", the ends are trimmed
safeFilename(name) ==
    TrimSpace(replaceAll(name, {"<", ">", ":", "\"", "/", "\\", "|", "?", "*"}))

\* sessionPath, without the directory and the extension all paths share
sessionPath(key) == safeFilename(replaceAll(key, {":"}))

\* the value a set of pairs holds for k, or none
Has(pairs, k) == \E p \in pairs : p[1] = k
Get(pairs, k) == (CHOOSE p \in pairs : p[1] = k)[2]
Put(pairs, k, v) == {p \in pairs : p[1] # k} \cup {<<k, v>>}

\* load: the messages of the file at the key's path, or nil
load(key) ==
    IF Has(kFiles, sessionPath(key)) THEN Get(kFiles, sessionPath(key)) ELSE <<>>

\* GetOrCreate: the cached session, or the loaded one, or a new one
GetOrCreate(key) == IF Has(kCache, key) THEN Get(kCache, key) ELSE load(key)

InitKeys ==
    /\ LoopIdle /\ SideIdle
    /\ SubIdle /\ CronIdle /\ ExprIdle /\ EntryIdle /\ PersistIdle /\ ConfigIdle
    /\ PathIdle /\ FieldIdle /\ ChatIdle
    /\ kCache = {}
    /\ kFiles = {}

nonKeyVars ==
    <<loopVars, compVars, busVars, dispVars, cfgVars, subVars, cronVars, exprVars,
      entryVars, persistVars, configVars, pathVars, fieldVars, chatVars>>

\* a turn of the chat with this key: GetOrCreate, AddMessage of a message of
\* that chat (told by the key), Save
KeyTurn(key) ==
    LET sess == GetOrCreate(key)
        after == IF Len(sess) < MaxKept THEN Append(sess, key) ELSE sess
    IN /\ kCache' = Put(kCache, key, after)
       /\ kFiles' = Put(kFiles, sessionPath(key), after)
       /\ UNCHANGED nonKeyVars

\* a message that is answered without a Save: GetOrCreate alone
KeyLookup(key) ==
    /\ kCache' = Put(kCache, key, GetOrCreate(key))
    /\ UNCHANGED <<kFiles, nonKeyVars>>

\* the process is started again: NewManager with an empty cache
KeyRestart ==
    /\ kCache # {}
    /\ kCache' = {}
    /\ UNCHANGED <<kFiles, nonKeyVars>>

NextKeys ==
    \/ \E key \in SessionKeys : KeyTurn(key)
    \/ \E key \in SessionKeys : KeyLookup(key)
    \/ KeyRestart

SpecKeys == InitKeys /\ [][NextKeys]_vars

----------------------------------------------------------------------------
(* C1 *)

IsCallMsg(m) == m.role = "assistant" /\ m.calls # <<>>

\* the n messages after position p are the results of the first n calls of
\* the assistant message at p, in order
Answered(msgs, p, n) ==
    /\ p + n <= Len(msgs)
    /\ \A m \in 1..n :
          msgs[p + m].role = "tool" /\ msgs[p + m].callId = msgs[p].calls[m]

\* every assistant message with tool calls is followed by exactly its results,
\* and every tool message is one of them
Paired(msgs) ==
    /\ \A p \in 1..Len(msgs) :
          IsCallMsg(msgs[p]) =>
              LET n == Len(msgs[p].calls) IN
              /\ Answered(msgs, p, n)
              /\ p + n < Len(msgs) => msgs[p + n + 1].role # "tool"
    /\ \A q \in 1..Len(msgs) :
          msgs[q].role = "tool" =>
              \E p \in 1..(q - 1) :
                  IsCallMsg(msgs[p]) /\ q - p <= Len(msgs[p].calls)
                      /\ \A r \in (p + 1)..q : msgs[r].role = "tool"

C1_PairedNow ==
    IF pc = "tools"
    THEN LET p0 == Len(messages) - nDone IN
         /\ p0 >= 1
         /\ IsCallMsg(messages[p0])
         /\ messages[p0].calls = [j \in 1..Len(calls) |-> calls[j].id]
         /\ Answered(messages, p0, nDone)
         /\ Paired(SubSeq(messages, 1, p0 - 1))
    ELSE Paired(messages)

C1_ToolsStep ==
    pc = "tools" =>
        /\ chatCalls' = chatCalls
        /\ \/ /\ pc' = "tools"
              /\ nDone < Len(calls)
              /\ nDone' = nDone + 1
              /\ Len(messages') = Len(messages) + 1
              /\ messages'[Len(messages')].role = "tool"
              /\ messages'[Len(messages')].callId = calls[nDone + 1].id
           \/ /\ pc' # "tools"
              /\ nDone = Len(calls)
              /\ \A p \in (Len(messages) + 1)..Len(messages') :
                    messages'[p].role = "user"

\* C1: once the assistant message with tool calls c1..cn is appended, the loop
\* appends exactly n tool messages, the k-th with tool_call_id = ck.id, before
\* it appends another assistant message or makes a Provider call; every list
\* handed to the Provider, also after compression, keeps each assistant
\* tool-call message together with its results.
C1_ToolCallsPaired == [](C1_PairedNow) /\ [][C1_ToolsStep]_vars

\* a compressed list that holds a two-call assistant message is about to be
\* handed to the Provider
C1_Witness ==
    /\ pc = "chat" /\ cur.kind = "chat"
    /\ \E p \in 1..Len(messages) : messages[p].tag = "summary"
    /\ \E p \in 1..Len(messages) : IsCallMsg(messages[p]) /\ Len(messages[p].calls) = 2

----------------------------------------------------------------------------
(* C2 *)

\* C2 as claimed: the Provider.Chat invocations of a turn, whatever their
\* purpose, number at most maxIterations.
C2_ChatCallsWithinIterations == chatCalls <= MaxIterations

\* C2 as amended: the model requests of a turn (the invocations of
\* chatWithRetry) number at most maxIterations; the Provider.Chat invocations
\* number at most 5 * maxIterations + 1 (one consolidation, and per iteration a
\* pre-call compression, three attempts and an error-branch compression).
C2_RequestsWithinIterations ==
    /\ reqs <= MaxIterations
    /\ chatCalls <= 5 * MaxIterations + 1

\* a turn that used every iteration and made more Provider calls than that
C2_Witness ==
    /\ pc = "publish" /\ cur.kind = "chat"
    /\ reqs = MaxIterations
    /\ chatCalls > MaxIterations

----------------------------------------------------------------------------
(* C3 *)

\* what Run has published, oldest first
runOut == SelectSeq(outbound, LAMBDA o : o.by = "run")

\* the outbound message o is one Run produces for the inbound message m
AnswerTo(o, m) ==
    /\ o.re = m
    /\ o.kind \in (CASE m.kind = "chat" -> {"reply", "apology"}
                    [] m.kind = "system" -> {"sysreply"}
                    [] OTHER -> {"slash"})

----------------------------------------------------------------------------
(* C4 *)

C4_QueueState ==
    /\ received \o inbound = completed
    /\ Len(inbound) <= InboundCap
    /\ \A m, n \in 1..Len(completed) : m # n => completed[m] # completed[n]

C4_QueueStep ==
    \A p \in Producers :
        /\ (prod[p] # NoMsg /\ prod'[p] = NoMsg) =>
               /\ Len(inbound) < InboundCap
               /\ completed' = Append(completed, prod[p])
        /\ (prod[p] # NoMsg /\ Len(inbound) = InboundCap /\ received' = received) =>
               prod'[p] = prod[p]

\* C4: the inbound queue never drops, duplicates or reorders: what the
\* consumer has received followed by what is buffered is, at every moment,
\* the messages whose publication completed, each once and in completion
\* order; the buffer never holds more than 64, and a producer whose send finds
\* it full stays in PublishInbound until the consumer has taken a message.
C4_InboundFifoBlocking == [](C4_QueueState) /\ [][C4_QueueStep]_vars

\* the buffer was full with a producer blocked, the consumer took a message,
\* and the blocked publication completed, filling the buffer again
C4_Witness ==
    /\ received # <<>>
    /\ Len(inbound) = InboundCap
    /\ Len(completed) = InboundCap + 1
    /\ Sending # {}

----------------------------------------------------------------------------
(* C5 *)

\* the strategies of the calls made to one handler when every call fails:
\* the original, no media if it had media, truncated if it is longer than
\* 1500 bytes, the apology
ExpectedCalls(msg) ==
    <<0>> \o (IF msg.media > 0 THEN <<1>> ELSE <<>>)
         \o (IF msg.content > 1500 THEN <<2>> ELSE <<>>)
         \o <<3>>

\* what a call of each strategy must carry
CallCarries(a, msg) ==
    CASE a.strategy = 0 -> a.content = msg.content /\ a.media = msg.media
      [] a.strategy = 1 -> a.content = msg.content /\ a.media = 0
      [] a.strategy = 2 -> a.content = 1500 + MarkerLen /\ a.media = 0
      [] OTHER -> a.content = ApologyLen /\ a.media = 0

\* C5 as claimed: the truncated retry is one of the strategies of every
\* recovery, so an apology is sent only after a truncated attempt failed.
C5_ApologyAfterTruncation ==
    \A n \in 1..Len(log) :
        log[n].strategy = 3 => \E m \in 1..(n - 1) : log[m].strategy = 2

\* C5 as amended: the calls made to a handler for one message are, in this
\* order and stopping at the first that succeeds: the original; the message
\* without media, only if it had media; the content cut to 1500 bytes plus the
\* marker, only if it is longer than 1500 bytes; the apology. At most 4 calls
\* are made, every call before the last has failed, and a message with media
\* gets its media-free attempt before the apology.
C5_RecoveryOrder ==
    dPc \in {"call", "recover", "next"} =>
        LET expected == ExpectedCalls(dMsg) IN
        /\ Len(log) <= 4
        /\ Len(log) <= Len(expected)
        /\ \A n \in 1..Len(log) :
              /\ log[n].strategy = expected[n]
              /\ log[n].handler = hIdx
              /\ CallCarries(log[n], dMsg)
              /\ n < Len(log) => ~log[n].ok
        /\ dPc = "call" => log = <<>>
        /\ dPc = "recover" =>
              log # <<>> /\ ~log[Len(log)].ok /\ Len(log) < Len(expected)
        /\ dPc = "next" =>
              log # <<>> /\ (log[Len(log)].ok \/ Len(log) = Len(expected))

\* the second handler failed a long message with media four times
C5_Witness ==
    /\ dPc = "next" /\ hIdx = 1
    /\ Len(log) = 4
    /\ ~log[4].ok

----------------------------------------------------------------------------
(* C6, C7 *)

\* C6: after /new the session holds no messages and what it held is in memory:
\* the history entry consolidation returned is appended to HISTORY.md and the
\* memory_update it returned is the content of MEMORY.md; no transcript is
\* cleared without having been consolidated. (An empty value counts as none
\* returned.)
C6_NewClearsOnlyConsolidated ==
    (pc = "publish" /\ cur.kind = "/new") =>
        /\ session = <<>>
        /\ cons.preSession # <<>> =>
              /\ cons.out.kind = "ok"
              /\ history = IF cons.out.entry # ""
                           THEN Append(cons.preHistory, cons.out.entry)
                           ELSE cons.preHistory
              /\ memory = IF cons.out.update # "" THEN cons.out.update
                          ELSE cons.preMemory

\* C7: when the consolidation call fails or its reply does not parse, the
\* transcript, MEMORY.md and HISTORY.md are what they were before the
\* consolidation was triggered, for the threshold and for /new.
C7_FailedConsolidationKeepsState ==
    (/\ ConsFailure(cons)
     /\ \/ pc = "publish" /\ cur.kind = "/new"
        \/ pc = "loop" /\ cur.kind = "chat" /\ iter = 0) =>
        /\ session = cons.preSession
        /\ memory = cons.preMemory
        /\ history = cons.preHistory

----------------------------------------------------------------------------
(* C8 *)

MaxOf(a, b) == IF a >= b THEN a ELSE b

\* max(memoryWindow, keepTail) + 2
TranscriptBound == MaxOf(MemoryWindow, keepCountOf(MemoryWindow)) + 2

----------------------------------------------------------------------------
(* C9 *)

\* C9: when estimateTokens(messages) <= contextLimit at the pre-call check, no
\* summarization request is made before the call and the list handed to the
\* Provider, at every attempt, is the list the check saw.
C9_NoCompressionWithinLimit ==
    (pc \in {"chat", "backoff"} /\ chk.made /\ chk.tokens <= ContextLimit) =>
        /\ messages = chk.msgs
        /\ chatCalls = chk.calls + attempt

\* a list at the limit exactly, which compressMessages would have shortened,
\* is about to be handed to the Provider
C9_Witness ==
    /\ pc = "chat" /\ chk.made
    /\ chk.tokens = ContextLimit
    /\ compressCallsChat(messages)

----------------------------------------------------------------------------
(* C10 *)

\* the reference split point: the largest i, 2 <= i <= len(M)-4, with role user
RefSplitSet(M) == {i \in 2..(Len(M) - 4) : At(M, i).role = "user"}
RefMax(S) == CHOOSE x \in S : \A y \in S : y <= x

\* C10: compressMessages(M) is M unchanged when len(M) < 6, when no index i
\* with 2 <= i <= len(M)-4 has role user, or when the summarization call
\* fails; otherwise, with splitIdx the largest such index, the result C has
\* C[0] = M[0], C[1] the user summary message, C[2] the fixed assistant
\* acknowledgement, C[3:] = M[splitIdx:], |C| = 3 + len(M) - splitIdx, and the
\* retained tail has at least 4 messages.
C10_CompressIsReference ==
    cPc = "out" =>
        IF Len(cM) < 6 \/ RefSplitSet(cM) = {} \/ ~cOk
        THEN cOut = cM
        ELSE LET splitIdx == RefMax(RefSplitSet(cM)) IN
             /\ At(cOut, 0) = At(cM, 0)
             /\ At(cOut, 1).role = "user" /\ At(cOut, 1).tag = "summary"
             /\ At(cOut, 2) = AckMsg
             /\ SliceFrom(cOut, 3) = SliceFrom(cM, splitIdx)
             /\ Len(cOut) = 3 + Len(cM) - splitIdx
             /\ Len(SliceFrom(cOut, 3)) >= 4

\* a compression that succeeded, with a user message both at and below the split
C10_Witness ==
    /\ cPc = "out" /\ cOk /\ Len(cM) = MaxLen
    /\ Cardinality(RefSplitSet(cM)) >= 2
    /\ cOut # cM

----------------------------------------------------------------------------
(* C11 *)

NudgeIsLast == messages # <<>> /\ messages[Len(messages)].tag = "nudge"

C11_NudgeStep ==
    (pc = "tools" /\ pc' = "loop" /\ cur.kind = "chat") =>
        /\ rounds' = rounds + 1
        /\ messages' = IF reqs >= 2 THEN Append(messages, NudgeMsg) ELSE messages
        /\ rounds >= 1 => reqs >= 2

----------------------------------------------------------------------------
(* C12 *)

\* where a chat turn is between the consolidation and its return
InReActLoop ==
    cur.kind = "chat"
        /\ pc \in {"loop", "compress", "chat", "backoff", "errcompress", "tools"}

\* the two entries of a completed turn
TurnEntries(userBytes, tools) ==
    << [role |-> "user", tag |-> "stored", calls |-> <<>>, callId |-> 0,
        bytes |-> userBytes, toolsUsed |-> <<>>],
       [role |-> "assistant", tag |-> "stored", calls |-> <<>>, callId |-> 0,
        bytes |-> 40, toolsUsed |-> tools] >>

C12_TurnStep ==
    /\ pc' = "dispatch" => toolsUsed' = <<>>
    /\ InReActLoop =>
          /\ toolsUsed' = IF nDone' = nDone + 1
                          THEN Append(toolsUsed, calls[nDone + 1].name)
                          ELSE toolsUsed
          /\ session' = IF pc' = "publish" /\ resp'.kind = "reply"
                        THEN session \o TurnEntries(cur.bytes, toolsUsed)
                        ELSE session
          /\ pc' = "publish" => resp'.kind \in {"reply", "apology"}
    /\ pc = "publish" => session' = session

----------------------------------------------------------------------------
(* C13 *)

C13_RetryState ==
    /\ rq.calls <= 3
    /\ rq.ret = "resp" => rq.calls = rq.lastErr + 1
    /\ rq.ret = "ctx" => ctxDone /\ rq.calls = rq.lastErr /\ rq.calls \in 1..2
    /\ rq.ret = "err" => rq.calls = 3 /\ rq.lastErr = 3

C13_RetryStep ==
    /\ rq.ret # "running" => (rq' = rq \/ rq' = RqNone)
    /\ (pc = "backoff" /\ ctxDone /\ rq' # rq) =>
          rq' = [rq EXCEPT !.ret = "ctx"]

\* C13: one call of chatWithRetry makes at most 3 provider.Chat calls; it
\* returns the first response that is no error and makes no call after it;
\* with the context cancelled at a backoff wait it returns the context's
\* error and makes no further call; after three failed calls it returns the
\* error of the third.
C13_AtMostThreeAttempts == [](C13_RetryState) /\ [][C13_RetryStep]_vars

\* two calls failed and the context was cancelled during the second wait
C13_Witness ==
    /\ rq.ret = "ctx"
    /\ rq.calls = 2

----------------------------------------------------------------------------
(* C14 *)

\* the names a model can call: the registered ones and one that is not
C14_Names == MainTools \cup {"nope"}

\* an error text and no media
IsErrorResult(result) ==
    /\ result.kind \in {"notfound", "toolerror"}
    /\ result.media = 0

C14_ExecuteIsolates ==
    \A name \in C14_Names, ran \in AllRuns :
        /\ name \notin MainTools => Execute(MainTools, name, ran).kind = "notfound"
        /\ (name \in MainTools /\ ran.err) =>
               Execute(MainTools, name, ran).kind = "toolerror"
        /\ (name \notin MainTools \/ ran.err) =>
               IsErrorResult(Execute(MainTools, name, ran))

C14_ToolStep ==
    (pc = "tools" /\ nDone < Len(calls) /\ nDone' # nDone) =>
        LET tc == nextCall(calls, nDone)
            last == messages'[Len(messages')]
        IN /\ pc' = "tools" /\ nDone' = nDone + 1 /\ calls' = calls
           /\ messages' = Append(messages, last)
           /\ last.role = "tool" /\ last.callId = tc.id
           /\ tc.name \notin MainTools => last.tag = "notfound"
           /\ last.tag \in {"notfound", "toolerror"} =>
                 mediaFiles' = mediaFiles /\ outbound' = outbound

C14_RoundStep ==
    (pc = "tools" /\ pc' # "tools") =>
        /\ nDone = Len(calls)
        /\ pc' = "loop" /\ iter' = iter + 1
        /\ resp' = resp

----------------------------------------------------------------------------
(* C15 *)

\* a step in which subagent i itself moved
SubMoved(i) == i \in 1..Len(sub) /\ sub'[i] # sub[i]

C15_SubState ==
    /\ \A k \in 1..Len(outbound) : outbound[k].by = "run"
    /\ \A i \in 1..Len(sub) :
          /\ sub[i].by = "main"
          /\ (sub[i].pc = "tools" /\ sub[i].nDone > 0
                /\ sub[i].calls[sub[i].nDone] \in {"message", "spawn"}) =>
                 sub[i].last = "notfound"

C15_SubStep ==
    \A i \in 1..MaxSpawns :
        SubMoved(i) =>
            /\ outbound' = outbound
            /\ spawnCalls' = spawnCalls /\ Len(sub') = Len(sub)
            /\ \/ inbound' = inbound
               \/ /\ sub[i].pc = "announce"
                  /\ inbound' = Append(inbound,
                                       Announcement(i, sub[i].origin, sub[i].status))

\* C15: no outbound message is published by a subagent and no subagent is
\* started by a subagent: a call of the message tool or the spawn tool made
\* by a subagent's model gets the tool-not-found result, and a step of a
\* subagent touches the bus only to publish its announcement inbound.
C15_SubagentIsolated == [](C15_SubState) /\ [][C15_SubStep]_vars

\* a subagent has called the message tool and got tool-not-found
C15_Witness ==
    \E i \in 1..Len(sub) :
        /\ sub[i].pc = "tools" /\ sub[i].nDone = 1
        /\ sub[i].calls = <<"message">>
        /\ sub[i].last = "notfound"

----------------------------------------------------------------------------
(* C16 *)

----------------------------------------------------------------------------
(* C17 *)

\* the subagent an announcement came from
OriginOf(ann) == sub[ann.by].origin

C17_Addressed(out) ==
    out.by = "run" =>
        /\ out.re.chatID = announceChatID(OriginOf(out.re))
        /\ out.channel = OriginOf(out.re).channel
        /\ out.chatID = OriginOf(out.re).chatID

\* C17: an announcement carries originChannel + ":" + originChatID of the
\* Spawn that started its subagent, and the outbound message the main loop
\* publishes for it is addressed to that originChannel and originChatID, also
\* when the chat id holds ':'.
C17_AnnouncementRoundTrip ==
    /\ \A k \in 1..Len(inbound) :
          inbound[k].chatID = announceChatID(OriginOf(inbound[k]))
    /\ \A k \in 1..Len(outbound) : C17_Addressed(outbound[k])

\* the answer to an announcement went to a chat id that holds ':'
C17_Witness ==
    \E k \in 1..Len(outbound) :
        /\ outbound[k].by = "run"
        /\ outbound[k].channel = <<"d">>
        /\ outbound[k].chatID = <<":", "7", ":">>

----------------------------------------------------------------------------
(* C18 *)

\* C18: every job in the store that is not enabled has nextRunAtMs = 0.
C18_DisabledHasNoNextRun ==
    \A k \in 1..Len(store) :
        ~obj[store[k]].enabled => obj[store[k]].nextRunAtMs = 0

----------------------------------------------------------------------------
(* C19 *)

IsAt(job) == job.sched.kind = "at"
Holds(jobs, id) == \E k \in 1..Len(jobs) : jobs[k] = id

C19_AtState ==
    \A id \in 1..Len(obj) :
        IsAt(obj[id]) =>
            /\ obj[id].fires <= 1
            /\ obj[id].nextRunAtMs \in {0, obj[id].sched.atMs}
            /\ (obj[id].fires = 1 /\ firing.id # id) =>
                  /\ Holds(store, id) => obj[id].nextRunAtMs = 0
                  /\ obj[id].deleteAfterRun => ~Holds(store, id)

C19_AtStep ==
    /\ \A id \in 1..Len(obj) :
          IsAt(obj[id]) =>
              /\ (obj'[id].nextRunAtMs # obj[id].nextRunAtMs
                    /\ obj'[id].nextRunAtMs # 0) =>
                     obj[id].sched.atMs > now
              /\ (firing.id = id /\ firing'.id # id) =>
                     IF obj[id].deleteAfterRun
                     THEN ~Holds(store', id)
                     ELSE ~obj'[id].enabled /\ obj'[id].nextRunAtMs = 0
    /\ \A id \in (Len(obj) + 1)..Len(obj') :
          IsAt(obj'[id]) =>
              obj'[id].nextRunAtMs =
                  IF obj'[id].sched.atMs > now THEN obj'[id].sched.atMs ELSE 0

\* C19: the callback is invoked at most once for a job of kind "at"; its
\* nextRunAtMs is atMs only when set at a time before atMs and 0 otherwise;
\* when its firing completes it is removed from the store (deleteAfterRun)
\* or disabled with nextRunAtMs = 0, and it stays unscheduled whatever tick
\* or EnableJob follows.
C19_OneShotFiresOnce == [](C19_AtState) /\ [][C19_AtStep]_vars

\* a fired one-shot job was enabled again and a later tick found nothing due
C19_Witness ==
    /\ tPc = "loop" /\ due = <<>>
    /\ \E id \in 1..Len(obj) :
          /\ IsAt(obj[id]) /\ obj[id].fires = 1
          /\ Holds(store, id) /\ obj[id].enabled

----------------------------------------------------------------------------
(* C20 *)

C20_ComputeEvery ==
    \A e \in {-1, 0}, t \in 0..MaxTime : computeNextRun(EverySched(e), t) = 0

C20_NoRepeatInTick ==
    \A a, b \in 1..Len(due) : a # b => due[a] # due[b]

C20_FiringStep ==
    /\ (tPc = "finish" /\ tPc' = "loop" /\ ~IsAt(obj[firing.id])) =>
          LET was == obj[firing.id]
              job == obj'[firing.id]
          IN /\ job.lastRunAtMs = firing.startMs
             /\ job.lastStatus = (IF firing.err THEN "error" ELSE "ok")
             /\ job.lastError = firing.err
             /\ job.nextRunAtMs = now + job.sched.everyMs
             /\ job.nextRunAtMs > now
             /\ job.enabled = was.enabled
    /\ (tPc = "callback" /\ tPc' = "finish") =>
          /\ obj'[firing.id].enabled = obj[firing.id].enabled
          /\ obj'[firing.id].lastError = firing'.err
    /\ \A id \in 1..Len(obj) :
          obj'[id].fires # obj[id].fires =>
              /\ tPc = "loop" /\ due # <<>> /\ Head(due) = id
              /\ obj'[id].fires = obj[id].fires + 1

\* C20: when the firing of an "every" job completes, lastRunAtMs is the
\* time the firing started, lastStatus and lastError tell whether the
\* callback returned an error, nextRunAtMs is the time of completion plus
\* everyMs and so lies ahead, and the job is as enabled as before; a tick
\* fires no job twice; computeNextRun is 0 for everyMs <= 0.
C20_EveryFiring ==
    [](C20_ComputeEvery /\ C20_NoRepeatInTick) /\ [][C20_FiringStep]_vars

\* an "every" job has fired twice; the second callback took time and failed
C20_Witness ==
    /\ tPc = "loop"
    /\ \E id \in 1..Len(obj) :
          /\ ~IsAt(obj[id]) /\ obj[id].fires = 2
          /\ obj[id].lastStatus = "error" /\ obj[id].enabled
          /\ obj[id].lastRunAtMs < now
          /\ obj[id].nextRunAtMs = now + obj[id].sched.everyMs

----------------------------------------------------------------------------
(* C21 *)

\* C21: no jump of nextCronRun's search passes over a minute at which all
\* five fields match, so what it returns is the first such minute after the
\* minute of t0.
C21_NoMatchSkipped ==
    [][(xPc = "loop" /\ xT' > xT) =>
          \A m \in (xT + 1)..(xT' - 1) : ~cronMatches(xIn.expr, m, xIn.zone)]_vars

----------------------------------------------------------------------------
(* C22 *)

TurnsInProgress == {e \in EntryPoints : ePc[e] # "idle"}

----------------------------------------------------------------------------
(* C23, C24 *)

\* the messages whose range loop is over
Dispatched == IF dPc = "idle" THEN Len(primary) ELSE Len(primary) - 1

\* C23: messages are dispatched in queue order; for each, the handlers that
\* were subscribed to its channel when it was taken get the original exactly
\* once each, in subscription order, whatever the earlier handlers returned
\* and whoever subscribed meanwhile.
C23_EveryHandlerInOrder ==
    /\ \A k \in 1..Len(primary) : primary[k].msg.id = k
    /\ \A k \in 1..Dispatched : primary[k].calls = primary[k].subs
    /\ dPc \in {"call", "recover", "next"} =>
          LET p == primary[Len(primary)]
              n == IF dPc = "call" THEN hIdx ELSE hIdx + 1
          IN  /\ primary[Len(primary)].msg = dMsg
              /\ n <= Len(p.subs)
              /\ p.calls = SubSeq(p.subs, 1, n)

\* the second message went to both handlers of its channel, subscribed as 2
\* and then 1, although handler 2 had failed it
C23_Witness ==
    /\ dPc = "idle"
    /\ Len(primary) = 2
    /\ primary[2].calls = <<2, 1>>
    /\ 2 \in primary[2].failed
    /\ primary[1].calls # <<>>

\* C24: once the context is cancelled no message leaves the outbound queue.
C24_NoDispatchAfterCancel ==
    [][ctxDone => outbound' = outbound]_vars

----------------------------------------------------------------------------
(* C25 *)

\* the fallback text of the turn that produced a reply
FallbackOf(out) == IF out.kind = "reply" THEN FallbackLen ELSE SystemFallbackLen

\* C25: a reply returned by a turn of the ReAct loop never has empty content;
\* a turn that left the loop through the iteration cap returns the fallback
\* text, and so does one whose tool-free response was empty.
C25_ReplyNotEmpty ==
    /\ (pc = "publish" /\ resp.kind \in {"reply", "sysreply"}) =>
          /\ resp.content > 0
          /\ ~loopContinues(iter) => resp.content = FallbackOf(resp)
    /\ \A k \in 1..Len(outbound) :
          outbound[k].kind \in {"reply", "sysreply"} => outbound[k].content > 0

\* a chat turn ran tool rounds up to the iteration cap and replies with the
\* fallback text
C25_Witness ==
    /\ pc = "publish"
    /\ resp.kind = "reply"
    /\ ~loopContinues(iter)
    /\ rounds > 0
    /\ resp.content = FallbackLen

----------------------------------------------------------------------------
(* C26 *)

\* C26: a session saved and then loaded by a manager with an empty cache has
\* the same messages, field for field and in order, and the same createdAt.
C26_SaveLoadRoundTrip ==
    pPc = "loaded" =>
        /\ pLoaded.messages = pSess.messages
        /\ pLoaded.createdAt = pSess.createdAt

----------------------------------------------------------------------------
(* C27 *)

\* C27: a string map of the config comes back from SaveTo and LoadFrom with
\* exactly the keys and values it had, upper-case keys with underscores
\* included.
C27_MapKeysPreserved ==
    gPc = "loaded" => gLoaded = gEnv

----------------------------------------------------------------------------
(* C28 *)

\* C28: with an allowed directory, resolvePath succeeds only for a path that
\* resolves to the directory itself or to a location beneath it; a sibling
\* whose name begins with the directory's name is refused.
C28_ResolvedWithinBase ==
    (rPc = "done" /\ rOut.ok) => Beneath(rOut.resolved, Abs(rIn.allowedDir))

----------------------------------------------------------------------------
(* C29 *)

\* a part is acceptable: well formed, its step positive, its values within
\* the field's range
Acceptable(p, min, max) ==
    /\ p.form # "malformed"
    /\ p.n > 0
    /\ p.form \in {"value", "range"} => (p.a \in min..max /\ p.b \in min..max)

\* the values a part denotes
Denoted(p, min, max) ==
    IF p.form = "all" THEN {i \in min..max : (i - min) % p.n = 0}
    ELSE {i \in p.a..p.b : (i - p.a) % p.n = 0}

\* C29: parseCronField returns nil exactly for the fields with a part that
\* is malformed, has a step that is not positive, or names a value outside
\* [min, max], and for every other field the union of what its parts denote.
C29_ParsesExactly ==
    fPc = "done" =>
        LET ok == \A k \in 1..Len(fIn.field) :
                      Acceptable(fIn.field[k], fIn.min, fIn.max)
        IN  /\ fOut.nil = ~ok
            /\ ok => fOut.set = UNION {Denoted(fIn.field[k], fIn.min, fIn.max) :
                                          k \in 1..Len(fIn.field)}

----------------------------------------------------------------------------
(* C30 *)

\* C30 as stated: at most one turn is in flight, and the completion of a turn
\* whose context Esc cancelled is recorded as the assistant entry
\* "[Interrupted]".
C30_CancelledIsInterrupted ==
    /\ Len(uTurns) <= 1
    /\ \A n \in 1..Len(uHistory) :
          (uHistory[n].role # "user" /\ uHistory[n].cancelled) =>
              (uHistory[n].role = "assistant" /\ uHistory[n].content = "[Interrupted]")

\* C30: at most one turn is in flight, and one is exactly while the chat
\* waits; Enter while waiting and Esc change no entry; Esc cancels the
\* context of the turn awaited and nothing else; a completion is recorded as
\* "[Interrupted]" only for a turn that was cancelled, and then exactly when
\* ProcessDirect returned the cancellation error; a cancelled turn that still
\* returned a reply or another error is recorded as that; after every
\* completion the chat accepts input again.
C30_OneTurnEscInterrupts ==
    /\ [](/\ Len(uTurns) <= 1
          /\ uWaiting = (uTurns # <<>>)
          /\ uCancel => (uWaiting /\ ~uTurns[1].cancelled)
          /\ \A n \in 1..Len(uHistory) :
                /\ (n % 2 = 1) = (uHistory[n].role = "user")
                /\ uHistory[n].content = "[Interrupted]" =>
                      (uHistory[n].role = "assistant" /\ uHistory[n].cancelled))
    /\ [][/\ (uWaiting /\ uWaiting') => uHistory' = uHistory
          /\ (uWaiting /\ ~uWaiting') =>
                /\ uHistory' = Append(uHistory,
                                      entryFor(uTurns[1].result, uTurns[1].cancelled))
                /\ ~uCancel' /\ uTurns' = <<>>]_vars

\* a turn was cancelled with Esc and recorded as interrupted, and the next
\* input started a new turn
C30_Witness ==
    /\ Len(uHistory) >= 3
    /\ uHistory[2] = Entry("assistant", "[Interrupted]", TRUE)
    /\ uHistory[3].role = "user"
    /\ uWaiting

-----------------------------------------------------------------------------
(* C31 *)

\* the outcome of the error branch for the compressed list c: the turn goes on
\* with c and one iteration fewer, or fails with the apology
errorBranch(c) ==
    IF estimateTokens(c) < estimateTokens(messages)
    THEN pc' = "loop" /\ messages' = c /\ iter' = iter + 1 /\ resp' = resp
    ELSE pc' = "publish" /\ messages' = messages /\ iter' = iter
                         /\ resp' = apologyFor(cur)

-----------------------------------------------------------------------------
(* C32 *)

\* keepTail of the claim: memoryWindow/2 brought into 2..10
keepTail ==
    LET half == memoryWindow \div 2
        atLeast2 == IF half > 2 THEN half ELSE 2
    IN IF atLeast2 < 10 THEN atLeast2 ELSE 10

\* C32: a consolidation triggered by the threshold on a session of N messages
\* makes no Provider call and leaves session and memory files alone when
\* N <= keepTail; otherwise it makes one call, and when that succeeds the
\* session becomes its last keepTail messages in their order (the N - keepTail
\* oldest are gone), and when it fails the session is unchanged.
C32_ThresholdKeepsTail ==
    [][(pc = "dispatch" /\ cur.kind = "chat" /\ Len(session) > memoryWindow) =>
          LET N == Len(session) IN
          IF N <= keepTail
          THEN /\ chatCalls' = chatCalls
               /\ session' = session /\ memory' = memory /\ history' = history
          ELSE /\ chatCalls' = chatCalls + 1
               /\ cons'.called
               /\ IF cons'.out.kind = "ok"
                  THEN /\ Len(session') = keepTail
                       /\ \A i \in 1..keepTail :
                              session'[i] = session[N - keepTail + i]
                  ELSE session' = session]_vars

\* a consolidation that cut a session of more than 20 messages to its last 10
C32_Witness ==
    /\ pc = "loop" /\ cons.trigger = "threshold" /\ cons.out.kind = "ok"
    /\ Len(cons.preSession) > 20
    /\ Len(session) = 10
    /\ session[10] = cons.preSession[Len(cons.preSession)]

-----------------------------------------------------------------------------
(* C33 *)

\* C33: /compact replaces the stored transcript only when the compressed
\* list's token estimate is strictly smaller than the estimate before, and
\* then the session is the summary user message, the acknowledgement assistant
\* message and the tail, every tail message as it was stored; in every other
\* case session and file are as they were.
C33_CompactKeepsTail ==
    [][pPc = "stored" =>
          \E ok \in BOOLEAN, sumBytes \in SummaryBytes :
              LET stored == pSess.messages
                  msgs == compactInput(stored)
                  compressed == compressMessages(msgs, ok, sumBytes)
                  after == pSess'.messages
              IN
              IF Len(stored) >= 5
                     /\ estimateTokens(compressed) < estimateTokens(msgs)
              THEN /\ Len(after) = Len(compressed) - 1
                   /\ after[1].role = "user" /\ after[1].content = sumBytes
                   /\ after[2].role = "assistant" /\ after[2].content = AckBytes
                   /\ SubSeq(after, 3, Len(after))
                          = SubSeq(stored, findSplit(msgs), Len(stored))
              ELSE pSess' = pSess /\ pFile' = pFile]_vars

-----------------------------------------------------------------------------
(* C34 *)

\* the command a content names: lower-cased and trimmed it is "/" and a
\* registered name
CommandOf(content) ==
    LET t == TrimSpace(lowered(content)) IN
    IF t = <<"/", "n", "e", "w">> THEN "/new" ELSE IF t = <<"/", "c", "o", "m", "p", "a", "c", "t">> THEN "/compact"
    ELSE IF t = <<"/", "c", "o", "n", "t", "e", "x", "t">> THEN "/context" ELSE IF t = <<"/", "h", "e", "l", "p">> THEN "/help"
    ELSE "none"

\* C34: a message whose trimmed, lower-cased content is /name for a registered
\* command goes to that command's handler and to nothing else: no ReAct
\* iteration runs, no message list is built and no entry for the command is
\* added to the session; /help and /context make no Provider call and leave
\* session and memory files alone; any other content, /x included, starts a
\* normal turn.
C34_CommandsBypassTheLoop ==
    /\ [](cur # NoMsg /\ cur.channel # "system" /\ CommandOf(cur.content) # "none"
            => /\ cur.kind = CommandOf(cur.content)
               /\ iter = 0 /\ reqs = 0 /\ rounds = 0 /\ messages = <<>>
               /\ pc \in {"dispatch", "publish", "idle", "stopped"})
    /\ [][pc = "dispatch" /\ cur.channel # "system" =>
            LET name == CommandOf(cur.content) IN
            IF name = "none"
            THEN /\ pc' = "loop"
                 /\ messages' # <<>>
                 /\ messages'[Len(messages')] = Msg("user", "current", <<>>, 0, cur.bytes)
            ELSE /\ pc' = "publish"
                 /\ resp' = OutMsg("slash", "run", cur)
                 /\ ~\E i \in 1..Len(session') :
                        session'[i].role = "user" /\ session'[i].bytes = cur.bytes
                 /\ name \in {"/help", "/context"} =>
                        /\ chatCalls' = chatCalls
                        /\ session' = session
                        /\ memory' = memory /\ history' = history]_vars

\* " /New " was served by handleNew, which consolidated and cleared the session
C34_Witness ==
    /\ pc = "idle" /\ nTaken = 1
    /\ cur.content = <<" ", "/", "N", "e", "w", " ">>
    /\ Len(outbound) = 1 /\ outbound[1].kind = "slash"
    /\ session = <<>> /\ cons.trigger = "new" /\ cons.called
    /\ reqs = 0

-----------------------------------------------------------------------------
(* C35 *)

\* the chat an inbound message comes from: its own, or for an announcement
\* the chat its subagent was spawned from
originOf(m) ==
    IF m.channel = SystemChannel THEN parseOrigin(m.chatID) ELSE m

\* C35: at every tool call made while Run processes a message m the message
\* and spawn tools hold the chat m comes from, and what the message tool
\* publishes without a target of its own is addressed to that chat, also when
\* m is an announcement.
C35_ToolsHoldOwnOrigin ==
    /\ \A k \in 1..Len(eCalls) : eCalls[k].bound = eCalls[k].read
    /\ \A k \in 1..Len(outbound) :
          outbound[k].kind = "toolmsg" =>
              /\ outbound[k].channel = originOf(outbound[k].re).channel
              /\ outbound[k].chatID = originOf(outbound[k].re).chatID

-----------------------------------------------------------------------------
(* C36 *)

\* a PublishOutbound that has been called and has not returned
Publishing == {e \in EntryPoints : ePc[e] \in {"sending", "reply"}}

\* C36: no PublishOutbound of the loop or of the message tool waits for ever:
\* whenever one finds the outbound channel full, in the gateway or in the
\* agent mode, DispatchOutbound is there to receive from the channel.
C36_PublishNeverStuck ==
    Publishing # {} /\ ~CanSend(outbound, OutboundCap) => dPc # "off"

-----------------------------------------------------------------------------
(* C37 *)

\* C37: the callback of a job is started only while the job is in the store,
\* enabled and due; a RemoveJob or an EnableJob(id, false) that has returned
\* keeps it from starting, also when a tick is in progress.
C37_CallbackOnlyForLiveJob ==
    [][tPc = "loop" /\ tPc' = "callback" =>
          /\ InStore(firing'.id)
          /\ isDue(obj[firing'.id], now)]_vars

-----------------------------------------------------------------------------
(* C38 *)

\* C38: every enabled job in the store is scheduled: whatever AddJob,
\* EnableJob and the firings have done, a job with enabled = TRUE has a
\* nextRunAtMs above 0, the time of a tick that will fire it.
C38_EnabledIsScheduled ==
    \A k \in 1..Len(store) :
        obj[store[k]].enabled => obj[store[k]].nextRunAtMs > 0

-----------------------------------------------------------------------------
(* C39 *)

\* C39: distinct session keys never share a persisted transcript: every file
\* of the sessions directory holds the messages of one chat only (no Save
\* writes into the file of another key), and the session GetOrCreate hands
\* out for a key holds messages of that chat only (no load reads it).
C39_KeysDoNotShareFiles ==
    /\ \A f \in kFiles : \A i, j \in 1..Len(f[2]) : f[2][i] = f[2][j]
    /\ \A c \in kCache : \A i \in 1..Len(c[2]) : c[2][i] = c[1]

-----------------------------------------------------------------------------
(* C40 *)

\* C40: Spawn never fails: whatever the clock, the task id is well defined (8
\* hexadecimal characters), no call of Spawn ends the process, and every
\* subagent started has such an id.
C40_SpawnNeverFails ==
    /\ ~crashed
    /\ \A i \in 1..Len(sub) : HexLen(sub[i].taskID) = 8

====
